---- MODULE Spec2Model ----
(***************************************************************************)
(* Report-generation pipeline of the asymmetric-risk-mapper backend:       *)
(* the transactional store (internal/store), the scoring engine            *)
(* (internal/scoring), the Job and the Runner (internal/worker).           *)
(*                                                                         *)
(* The specifications share the committed database `db`:                   *)
(*   Spec        the Runner: queue, workers, recovery scanner, Job runs,   *)
(*               PersistScoredReport and MarkReportFailed;                 *)
(*   LiveSpec    the Runner left running, with fairness;                   *)
(*   StoreSpec   concurrent callers of AttachPaymentIntent and             *)
(*               InitialiseReport;                                         *)
(*   JobSpec, HedgerSpec, EnqueueSpec, ScoringSpec                         *)
(*               Job.Run, the hedging client, Runner.Enqueue and the       *)
(*               scoring functions, each on its own;                       *)
(*   WebhookSpec concurrent deliveries to the Stripe webhook handler;      *)
(*   AccessSpec  a client reading a report while the worker commits;       *)
(*   PaymentSpec calls of onPaymentSucceeded while reports are committed;  *)
(*   PoolSpec    the Runner with callers of Enqueue that fill the queue.   *)
(*                                                                         *)
(* Transactions opened by Store.withTx are SERIALIZABLE (store.go:58-60).  *)
(* A transaction is modelled by two steps: the start of its first          *)
(* statement, which fixes its snapshot, and the rest of its body together  *)
(* with COMMIT or ROLLBACK.  The body reads the snapshot; the database     *)
(* refuses it when a row it writes was changed by a transaction that       *)
(* committed after the snapshot (serialization failure) or when an         *)
(* inserted row breaks a UNIQUE constraint of sql/schema.sql.              *)
(***************************************************************************)
EXTENDS Integers, Sequences, FiniteSets, TLC

\* ─── BOUNDS ───────────────────────────────────────────────────────────────

\* number of reports (one per paid session) the Runner works on
NumReports == 1
\* webhook deliveries of payment_intent.succeeded handled while the Runner runs
MaxDeliveries == 1
\* recovery-scan interval ticks after the start-up scan
MaxTicks == 1
\* RunnerConfig.Workers, a configuration value (default 3)
Workers == 2
\* RunnerConfig.MaxRetries, a configuration value (default 3)
MaxRetries == 2
\* the history counter commits stops counting here
CommitCap == 2
\* sessions of StoreSpec
NumSessions == 2
\* store calls issued by each caller of StoreSpec, deliveries served by each
\* handler of WebhookSpec
MaxCalls == 2
\* goroutines calling the Store at the same time in StoreSpec, handler
\* goroutines of WebhookSpec
Callers == 2
NumQueued == 3
MaxRuns == 2

\* ─── PROGRAM CONSTANTS ────────────────────────────────────────────────────

\* make(chan uuid.UUID, cfg.Workers*2)
QueueCap == Workers * 2

highImpactThreshold == 7
highProbThreshold == 6

Null == "NULL"

WorkerIds == 1..Workers

\* ─── SCORING ENGINE (internal/scoring) ────────────────────────────────────
\* Texts are sequences of one-character strings; " " is the white space.

TierWatch == "watch"
TierRed == "red"
TierManage == "manage"
TierIgnore == "ignore"

clamp(v) == IF v < 1 THEN 1 ELSE IF v > 10 THEN 10 ELSE v

\* An answer or an option is a sequence of characters.  "U+00E9" stands for
\* a letter outside ASCII, which UTF-8 encodes in two bytes.
\* unicode.IsSpace, of the characters of the model
IsSpace(c) == c \in {" ", "\t"}

\* the bytes of the UTF-8 encoding of a character
ByteWidth(c) == IF c = "U+00E9" THEN 2 ELSE 1

\* len(s) of a Go string: its number of bytes
RECURSIVE ByteLen(_)
ByteLen(s) == IF s = <<>> THEN 0 ELSE ByteWidth(Head(s)) + ByteLen(Tail(s))

RECURSIVE TrimLeft(_)
TrimLeft(s) == IF s # <<>> /\ IsSpace(Head(s)) THEN TrimLeft(Tail(s)) ELSE s

RECURSIVE TrimRight(_)
TrimRight(s) ==
    IF s # <<>> /\ IsSpace(s[Len(s)]) THEN TrimRight(SubSeq(s, 1, Len(s) - 1)) ELSE s

TrimSpace(s) == TrimRight(TrimLeft(s))

\* RadioConfig.Validate
RadioValidate(c) ==
    /\ Len(c.opts) # 0
    /\ Len(c.p_scores) = Len(c.opts)
    /\ Len(c.i_scores) = Len(c.opts)
    /\ \A k \in 1..Len(c.p_scores) : c.p_scores[k] >= 1 /\ c.p_scores[k] <= 10
    /\ \A k \in 1..Len(c.i_scores) : c.i_scores[k] >= 1 /\ c.i_scores[k] <= 10

\* TextConfig.Validate
TextValidate(c) ==
    /\ \A v \in {c.p_short, c.p_long, c.i_short, c.i_long} : v >= 1 /\ v <= 10
    /\ c.threshold >= 0

\* ParseScoringConfig: TRUE when the blob parses and validates.  A blob is a
\* record with the JSON's fields; type "malformed" stands for unreadable JSON.
ParseScoringConfig(raw) ==
    CASE raw.type = "radio" -> RadioValidate(raw)
      [] raw.type = "text" -> TextValidate(raw)
      [] OTHER -> FALSE

\* index of the last option equal to the answer, 0 when there is none
RECURSIVE LastIndex(_, _, _)
LastIndex(opts, answer, k) ==
    IF k > Len(opts) THEN 0
    ELSE LET later == LastIndex(opts, answer, k + 1) IN
         IF later # 0 THEN later ELSE IF opts[k] = answer THEN k ELSE 0

\* index of the first option equal to the answer, 0 when there is none
RECURSIVE FirstIndex(_, _, _)
FirstIndex(opts, answer, k) ==
    IF k > Len(opts) THEN 0
    ELSE IF opts[k] = answer THEN k
    ELSE FirstIndex(opts, answer, k + 1)

\* the text rule with the boundary on the long side
IsLongInclusive(answer, threshold) == ByteLen(answer) >= threshold

\* len(answer) > tc.Threshold
IsLong(answer, threshold) == ByteLen(answer) > threshold

ScoreAnswer(rawConfig, answerText) ==
    IF ~ParseScoringConfig(rawConfig) THEN [err |-> TRUE, p |-> 0, i |-> 0]
    ELSE LET answer == TrimSpace(answerText) IN
         IF rawConfig.type = "radio"
         THEN LET idx == FirstIndex(rawConfig.opts, answer, 1) IN
              IF idx # 0
              THEN [err |-> FALSE, p |-> clamp(rawConfig.p_scores[idx]),
                    i |-> clamp(rawConfig.i_scores[idx])]
              ELSE [err |-> FALSE, p |-> 1, i |-> 1]
         ELSE IF IsLong(answer, rawConfig.threshold)
              THEN [err |-> FALSE, p |-> clamp(rawConfig.p_long),
                    i |-> clamp(rawConfig.i_long)]
              ELSE [err |-> FALSE, p |-> clamp(rawConfig.p_short),
                    i |-> clamp(rawConfig.i_short)]

\* GetTier with strict comparisons
GetTierStrict(p, i) ==
    LET highImpact == i > highImpactThreshold
        highProb == p > highProbThreshold
    IN CASE highImpact /\ highProb -> TierWatch
         [] highImpact /\ ~highProb -> TierRed
         [] ~highImpact /\ highProb -> TierManage
         [] OTHER -> TierIgnore

GetTier(p, i) ==
    LET highImpact == i >= highImpactThreshold
        highProb == p >= highProbThreshold
    IN CASE highImpact /\ highProb -> TierWatch
         [] highImpact /\ ~highProb -> TierRed
         [] ~highImpact /\ highProb -> TierManage
         [] OTHER -> TierIgnore

\* the comparison of the sort with equal scores ordered by descending
\* question identifier
RiskLessTiesDescending(a, b) ==
    IF a.Score # b.Score THEN a.Score > b.Score ELSE a.QuestionID > b.QuestionID

\* Question identifiers are the numbers 1, 2, ... in the order of Go's string
\* comparison of the identifiers they stand for.
RiskLess(a, b) ==
    IF a.Score # b.Score THEN a.Score > b.Score ELSE a.QuestionID < b.QuestionID

RECURSIVE InsertSorted(_, _)
InsertSorted(r, sorted) ==
    IF sorted = <<>> THEN <<r>>
    ELSE IF RiskLess(r, Head(sorted)) THEN <<r>> \o sorted
    ELSE <<Head(sorted)>> \o InsertSorted(r, Tail(sorted))

RECURSIVE SortRisks(_)
SortRisks(rs) == IF rs = <<>> THEN <<>> ELSE InsertSorted(Head(rs), SortRisks(Tail(rs)))

\* the loop of ComputeRisks over the rows: the scored risks, unsorted
RECURSIVE ScoreRows(_)
ScoreRows(rows) ==
    IF rows = <<>> THEN <<>>
    ELSE LET row == Head(rows)
             s == ScoreAnswer(row.ScoringConfig, row.AnswerText)
         IN IF ~row.IsScoring THEN ScoreRows(Tail(rows))
            ELSE <<[QuestionID |-> row.QuestionID, Hedge |-> row.Hedge,
                    P |-> s.p, I |-> s.i, Score |-> s.p * s.i,
                    Tier |-> GetTier(s.p, s.i), Rank |-> 0]>> \o ScoreRows(Tail(rows))

ComputeRisks(rows) ==
    IF \E k \in 1..Len(rows) :
           rows[k].IsScoring /\ ScoreAnswer(rows[k].ScoringConfig, rows[k].AnswerText).err
    THEN [err |-> TRUE, risks |-> <<>>]
    ELSE LET sorted == SortRisks(ScoreRows(rows)) IN
         [err |-> FALSE,
          risks |-> [k \in 1..Len(sorted) |-> [sorted[k] EXCEPT !.Rank = k]]]

RECURSIVE SumScores(_)
SumScores(risks) == IF risks = <<>> THEN 0 ELSE Head(risks).Score + SumScores(Tail(risks))

\* OverallScore with the mean truncated instead of rounded half-up
OverallScoreTruncated(risks) ==
    IF Len(risks) = 0 THEN 0 ELSE SumScores(risks) \div Len(risks)

\* int(float64(total)/float64(len(risks)) + 0.5), exact for these magnitudes
OverallScore(risks) ==
    IF Len(risks) = 0 THEN 0
    ELSE (2 * SumScores(risks) + Len(risks)) \div (2 * Len(risks))

CriticalCount(risks) == Cardinality({k \in 1..Len(risks) : risks[k].Tier = TierWatch})

RECURSIVE FilterByTier(_, _)
FilterByTier(risks, tiers) ==
    IF risks = <<>> THEN <<>>
    ELSE IF Head(risks).Tier \in tiers
         THEN <<Head(risks)>> \o FilterByTier(Tail(risks), tiers)
         ELSE FilterByTier(Tail(risks), tiers)

\* ─── DATABASE (sql/schema.sql and the sqlc queries) ───────────────────────
\* A database value d is a record of tables, each a sequence of rows; a row's
\* identifier is its position.  Null stands for the SQL NULL of a text column.
\*   sessions  stripe_customer_id, stripe_payment_intent, email, payment_status
\*   (sessions and reports rows also carry version: the number of UPDATEs that
\*   wrote the row, by which a serializable transaction tells a concurrent
\*   update of it apart from its snapshot even when the values are equal)
\*   answers   per session, the rows of GetAnswersBySession in display order
\*   reports   session_id, status, error_message, overall_score, critical_count,
\*             risks_json, executive_summary, top_priority_html, generated_at
\*   results   report_id, question_id, rank, probability, impact, score, tier,
\*             hedge, ai_hedge

\* An error is the chain of its messages, outermost first (fmt.Errorf with %w
\* puts a message in front); nil is the empty chain.
NoErr == <<>>
Wrap(msg, cause) == <<msg>> \o cause
\* errors.Is
Is(err, target) == \E k \in 1..Len(err) : err[k] = target
\* err.Error() of a non-nil error
RECURSIVE ErrorString(_)
ErrorString(err) ==
    IF Len(err) = 1 THEN err[1] ELSE err[1] \o ": " \o ErrorString(Tail(err))
ErrNoRows == "sql: no rows in result set"
ErrSerialization == "pq: could not serialize access due to concurrent update"
ErrUnique == "pq: duplicate key value violates unique constraint"
\* a transient failure of the connection, the pool or the context
ErrDB == "driver: bad connection"
\* what a call returns once its context is done
ErrCanceled == "context canceled"
ErrReportAlreadyExists == "store: report already exists for session"
ErrPaymentIntentAlreadyAttached == "store: payment intent already attached to session"

\* sql.NullInt16
NullInt16 == [Valid |-> FALSE, Int16 |-> 0]
Int16(v) == [Valid |-> TRUE, Int16 |-> v]

NewSession ==
    [stripe_customer_id |-> Null, stripe_payment_intent |-> Null, email |-> Null,
     payment_status |-> "pending", version |-> 0]

\* db.Session{}
ZeroSession ==
    [stripe_customer_id |-> Null, stripe_payment_intent |-> Null, email |-> Null,
     payment_status |-> "", version |-> 0]

\* the row CreateReport inserts: every other column takes its schema default
DraftReport(sessionID) ==
    [session_id |-> sessionID, status |-> "draft", error_message |-> Null,
     overall_score |-> NullInt16, critical_count |-> Int16(0),
     risks_json |-> [Valid |-> FALSE, RawMessage |-> <<>>],
     executive_summary |-> Null, top_priority_html |-> Null, generated_at |-> Null,
     version |-> 0]

\* opaque token of a report row (UNIQUE DEFAULT encode(gen_random_bytes(24)))
AccessToken(reportID) == <<"token", reportID>>

\* sql.NullString{String: v, Valid: v != ""}
NullIfEmpty(v) == IF v = "" THEN Null ELSE v

Min(S) == CHOOSE x \in S : \A y \in S : x <= y

\* the row was changed by a transaction that committed after the snapshot
RowChanged(snapTable, curTable, id) == curTable[id].version # snapTable[id].version

\* reports.session_id UNIQUE
ReportSessionTaken(d, sessionID) ==
    \E k \in 1..Len(d.reports) : d.reports[k].session_id = sessionID

\* risk_results UNIQUE (report_id, question_id)
ResultKeyTaken(d, reportID, questionID) ==
    \E k \in 1..Len(d.results) :
        d.results[k].report_id = reportID /\ d.results[k].question_id = questionID

\* GetSessionByStripePI / the WHERE of MarkSessionPaid
SessionsByPI(d, pi) ==
    {k \in 1..Len(d.sessions) : d.sessions[k].stripe_payment_intent = pi}

\* GetReportBySessionID that never finds a row
GetReportBySessionIDNoRows(d, sessionID) == 0

\* GetReportBySessionID: the row's id, 0 for no rows
GetReportBySessionID(d, sessionID) ==
    LET ids == {k \in 1..Len(d.reports) : d.reports[k].session_id = sessionID}
    IN IF ids = {} THEN 0 ELSE Min(ids)

\* ListPendingReports: ids in created_at order (every report of the model is
\* younger than the one-day window)
RECURSIVE PendingFrom(_, _)
PendingFrom(d, k) ==
    IF k > Len(d.reports) THEN <<>>
    ELSE IF d.reports[k].status \in {"draft", "processing"}
         THEN <<k>> \o PendingFrom(d, k + 1)
         ELSE PendingFrom(d, k + 1)

\* ListPendingReports with WHERE status = 'processing' only
ListProcessingReports(d) ==
    SelectSeq(PendingFrom(d, 1), LAMBDA k : d.reports[k].status = "processing")

ListPendingReports(d) == PendingFrom(d, 1)

SetReportProcessing(d, id) ==
    [d EXCEPT !.reports[id] = [@ EXCEPT !.status = "processing", !.version = @ + 1]]

FinalizeReport(d, id, overallScore, criticalCount, risksJson, summary, topPriority) ==
    [d EXCEPT !.reports[id] =
        [@ EXCEPT !.status = "ready",
                  !.overall_score = overallScore,
                  !.critical_count = criticalCount,
                  !.risks_json = risksJson,
                  !.executive_summary = summary,
                  !.top_priority_html = topPriority,
                  !.generated_at = "now",
                  !.version = @ + 1]]

\* SetReportError writing the status alone
SetReportErrorStatusOnly(d, id, errorMessage) ==
    [d EXCEPT !.reports[id] = [@ EXCEPT !.status = "error", !.version = @ + 1]]

SetReportError(d, id, errorMessage) ==
    [d EXCEPT !.reports[id] = [@ EXCEPT !.status = "error",
                                        !.error_message = errorMessage,
                                        !.version = @ + 1]]

InsertRiskResult(d, reportID, risk) ==
    [d EXCEPT !.results = Append(@,
        [report_id |-> reportID, question_id |-> risk.QuestionID, rank |-> risk.Rank,
         probability |-> risk.P, impact |-> risk.I, score |-> risk.Score,
         tier |-> risk.Tier, hedge |-> risk.Hedge, ai_hedge |-> Null])]

SetAIHedge(d, id, aiHedge) == [d EXCEPT !.results[id].ai_hedge = aiHedge]

MarkSessionPaid(d, pi) ==
    [d EXCEPT !.sessions = [k \in 1..Len(@) |->
        IF @[k].stripe_payment_intent = pi
        THEN [@[k] EXCEPT !.payment_status = "paid", !.version = @ + 1] ELSE @[k]]]

MarkSessionPaymentFailed(d, pi) ==
    [d EXCEPT !.sessions = [k \in 1..Len(@) |->
        IF @[k].stripe_payment_intent = pi
        THEN [@[k] EXCEPT !.payment_status = "failed", !.version = @ + 1] ELSE @[k]]]

CreateReport(d, sessionID) == [d EXCEPT !.reports = Append(@, DraftReport(sessionID))]

AttachStripeCustomer(d, id, customerID, pi, email) ==
    [d EXCEPT !.sessions[id] = [@ EXCEPT !.stripe_customer_id = customerID,
                                         !.stripe_payment_intent = pi,
                                         !.email = email,
                                         !.version = @ + 1]]

\* ─── TRANSACTIONAL STORE (internal/store) ─────────────────────────────────
\* A fault names the statement that fails with a transient error (ErrDB) in
\* one call: [step |-> <statement>, k |-> <index of the insert, else 0>].

NoFault == [step |-> "none", k |-> 0]
Fault(step) == [step |-> step, k |-> 0]

\* An UPDATE ... WHERE id = $1 RETURNING * inside a serializable transaction:
\* "" when it succeeds, else the error of the statement.
UpdateErr(failed, snapTable, curTable, id) ==
    IF failed THEN ErrDB
    ELSE IF id \notin 1..Len(snapTable) THEN ErrNoRows
    ELSE IF RowChanged(snapTable, curTable, id) THEN ErrSerialization
    ELSE ""

\* What COMMIT makes visible: the rows of the snapshot the transaction rewrote
\* and the rows it inserted, on top of the committed state cur.
MergeTable(curT, snapT, localT) ==
    [k \in 1..Len(curT) |->
        IF k <= Len(snapT) /\ localT[k] # snapT[k] THEN localT[k] ELSE curT[k]]
    \o SubSeq(localT, Len(snapT) + 1, Len(localT))

Apply(cur, snap, local) ==
    [sessions |-> MergeTable(cur.sessions, snap.sessions, local.sessions),
     answers |-> cur.answers,
     reports |-> MergeTable(cur.reports, snap.reports, local.reports),
     results |-> MergeTable(cur.results, snap.results, local.results)]

\* The same transaction wrapper with the rollback missing: what fn wrote
\* before it failed becomes visible.
withTxNoRollback(cur, snap, res, fault) ==
    IF fault.step = "begin"
    THEN [err |-> Wrap("store: begin transaction", <<ErrDB>>), db |-> cur]
    ELSE IF res.err # NoErr THEN [err |-> res.err, db |-> Apply(cur, snap, res.db)]
    ELSE IF fault.step = "commit"
    THEN [err |-> Wrap("store: commit transaction", <<ErrDB>>), db |-> cur]
    ELSE [err |-> NoErr, db |-> Apply(cur, snap, res.db)]

\* Store.withTx: res is what fn returned running on the snapshot (its error
\* and the transaction's own view of the tables); the result is the error of
\* withTx and the committed state after it.
withTx(cur, snap, res, fault) ==
    IF fault.step = "begin"
    THEN [err |-> Wrap("store: begin transaction", <<ErrDB>>), db |-> cur]
    ELSE IF res.err # NoErr THEN [err |-> res.err, db |-> cur]
    ELSE IF fault.step = "commit"
    THEN [err |-> Wrap("store: commit transaction", <<ErrDB>>), db |-> cur]
    ELSE [err |-> NoErr, db |-> Apply(cur, snap, res.db)]

\* step 2 of PersistScoredReport: the inserts from the k-th risk on (the
\* error messages of steps 2 and 3 quote the question id, left out here)
RECURSIVE InsertRisks(_, _, _, _, _, _)
InsertRisks(d, cur, reportID, risks, k, fault) ==
    IF k > Len(risks) THEN [err |-> NoErr, db |-> d]
    ELSE LET e == IF fault.step = "insert risk" /\ fault.k = k THEN ErrDB
                  ELSE IF \/ ResultKeyTaken(d, reportID, risks[k].QuestionID)
                          \/ ResultKeyTaken(cur, reportID, risks[k].QuestionID)
                       THEN ErrUnique
                       ELSE ""
         IN IF e # ""
            THEN [err |-> Wrap("PersistScoredReport: insert risk", <<e>>), db |-> d]
            ELSE InsertRisks(InsertRiskResult(d, reportID, risks[k]), cur, reportID,
                             risks, k + 1, fault)

\* resultIDs[questionID] after the inserts: the id of this report's row
ResultID(d, reportID, questionID) ==
    Min({k \in 1..Len(d.results) :
            d.results[k].report_id = reportID /\ d.results[k].question_id = questionID})

\* step 3 without the test for an empty text
HedgedQuestionsWithEmpty(risks, aiHedges) ==
    {q \in DOMAIN aiHedges : \E k \in 1..Len(risks) : risks[k].QuestionID = q}

\* step 3: the question ids of the AI map that get an override
HedgedQuestions(risks, aiHedges) ==
    {q \in DOMAIN aiHedges :
        (\E k \in 1..Len(risks) : risks[k].QuestionID = q) /\ aiHedges[q] # ""}

RECURSIVE ApplyHedges(_, _, _, _)
ApplyHedges(d, reportID, aiHedges, qs) ==
    IF qs = {} THEN d
    ELSE LET q == Min(qs)
         IN ApplyHedges(SetAIHedge(d, ResultID(d, reportID, q), aiHedges[q]),
                        reportID, aiHedges, qs \ {q})

\* the function PersistScoredReport hands to withTx
PersistScoredReportFn(snap, cur, p, fault) ==
    LET e1 == UpdateErr(fault.step = "set processing", snap.reports, cur.reports,
                        p.ReportID)
    IN
    IF e1 # ""
    THEN [err |-> Wrap("PersistScoredReport: set processing", <<e1>>), db |-> snap]
    ELSE
    LET d1 == SetReportProcessing(snap, p.ReportID)
        r2 == InsertRisks(d1, cur, p.ReportID, p.Risks, 1, fault)
        qs == HedgedQuestions(p.Risks, p.AIHedges)
    IN
    IF r2.err # NoErr THEN r2
    ELSE IF fault.step = "set AI hedge" /\ qs # {}
    THEN [err |-> Wrap("PersistScoredReport: set AI hedge", <<ErrDB>>), db |-> r2.db]
    ELSE
    LET d3 == ApplyHedges(r2.db, p.ReportID, p.AIHedges, qs)
    IN
    IF fault.step = "finalize report"
    THEN [err |-> Wrap("PersistScoredReport: finalize report", <<ErrDB>>), db |-> d3]
    ELSE [err |-> NoErr,
          db |-> FinalizeReport(d3, p.ReportID, Int16(OverallScore(p.Risks)),
                                Int16(CriticalCount(p.Risks)),
                                [Valid |-> TRUE, RawMessage |-> p.Risks],
                                NullIfEmpty(p.ExecutiveSummary),
                                NullIfEmpty(p.TopPriorityHTML))]

PersistScoredReport(snap, cur, p, fault) ==
    withTx(cur, snap, PersistScoredReportFn(snap, cur, p, fault), fault)

\* MarkReportFailed: one UPDATE outside any transaction
MarkReportFailed(cur, reportID, reason, failed) ==
    IF failed THEN [err |-> Wrap("MarkReportFailed", <<ErrDB>>), db |-> cur]
    ELSE IF reportID \notin 1..Len(cur.reports)
    THEN [err |-> Wrap("MarkReportFailed", <<ErrNoRows>>), db |-> cur]
    ELSE [err |-> NoErr, db |-> SetReportError(cur, reportID, reason)]

\* InitialiseReport without the existing-report check, on a reports table
\* without UNIQUE (session_id): it marks the session paid and inserts
InitialiseReportFnUnguarded(snap, cur, pi, fault) ==
    LET matched == SessionsByPI(snap, pi)
        e1 == IF fault.step = "mark session paid" THEN ErrDB
              ELSE IF matched = {} THEN ErrNoRows
              ELSE IF \E k \in matched : RowChanged(snap.sessions, cur.sessions, k)
                   THEN ErrSerialization
                   ELSE ""
    IN
    IF e1 # ""
    THEN [err |-> Wrap("InitialiseReport: mark session paid", <<e1>>), db |-> snap,
          report |-> 0]
    ELSE IF fault.step = "create report"
    THEN [err |-> Wrap("InitialiseReport: create report", <<ErrDB>>),
          db |-> MarkSessionPaid(snap, pi), report |-> 0]
    ELSE [err |-> NoErr, db |-> CreateReport(MarkSessionPaid(snap, pi), Min(matched)),
          report |-> Len(cur.reports) + 1]

\* the function InitialiseReport hands to withTx; report is the id of the row
\* it returns (0 for db.Report{})
InitialiseReportFn(snap, cur, pi, fault) ==
    LET matched == SessionsByPI(snap, pi)
        e1 == IF fault.step = "mark session paid" THEN ErrDB
              ELSE IF matched = {} THEN ErrNoRows
              ELSE IF \E k \in matched : RowChanged(snap.sessions, cur.sessions, k)
                   THEN ErrSerialization
                   ELSE ""
    IN
    IF e1 # ""
    THEN [err |-> Wrap("InitialiseReport: mark session paid", <<e1>>), db |-> snap,
          report |-> 0]
    ELSE
    LET d1 == MarkSessionPaid(snap, pi)
        sessionID == Min(matched)
        existing == GetReportBySessionID(d1, sessionID)
    IN
    IF fault.step = "check existing report"
    THEN [err |-> Wrap("InitialiseReport: check existing report", <<ErrDB>>),
          db |-> d1, report |-> 0]
    ELSE IF existing # 0
    THEN [err |-> <<ErrReportAlreadyExists>>, db |-> d1, report |-> existing]
    ELSE
    LET e3 == IF fault.step = "create report" THEN ErrDB
              ELSE IF ReportSessionTaken(cur, sessionID) THEN ErrUnique
              ELSE ""
    IN
    IF e3 # ""
    THEN [err |-> Wrap("InitialiseReport: create report", <<e3>>), db |-> d1,
          report |-> 0]
    ELSE [err |-> NoErr, db |-> CreateReport(d1, sessionID),
          report |-> Len(cur.reports) + 1]

\* InitialiseReport: the error, the committed state after the call and the
\* returned report row (its id, 0 for the zero value)
InitialiseReport(snap, cur, pi, fault) ==
    LET res == InitialiseReportFn(snap, cur, pi, fault)
        tx == withTx(cur, snap, res, fault)
    IN IF Is(tx.err, ErrReportAlreadyExists)
       THEN [err |-> <<ErrReportAlreadyExists>>, db |-> tx.db, report |-> res.report]
       ELSE IF tx.err # NoErr THEN [err |-> tx.err, db |-> tx.db, report |-> 0]
       ELSE [err |-> NoErr, db |-> tx.db, report |-> res.report]

\* AttachPaymentIntent's transaction without the already-attached guard
AttachPaymentIntentFnNoGuard(snap, cur, p, fault) ==
    IF fault.step = "get session"
    THEN [err |-> Wrap("AttachPaymentIntent: get session", <<ErrDB>>), db |-> snap]
    ELSE IF p.SessionID \notin 1..Len(snap.sessions)
    THEN [err |-> Wrap("AttachPaymentIntent: get session", <<ErrNoRows>>), db |-> snap]
    ELSE
    LET e == UpdateErr(fault.step = "attach stripe customer", snap.sessions,
                       cur.sessions, p.SessionID)
    IN
    IF e # ""
    THEN [err |-> Wrap("AttachPaymentIntent: attach stripe customer", <<e>>),
          db |-> snap]
    ELSE [err |-> NoErr,
          db |-> AttachStripeCustomer(snap, p.SessionID,
                                      NullIfEmpty(p.StripeCustomerID),
                                      p.StripePaymentIntent, NullIfEmpty(p.Email))]

\* the function AttachPaymentIntent hands to withTx; session is the id of the
\* row it returns
AttachPaymentIntentFn(snap, cur, p, fault) ==
    IF fault.step = "get session"
    THEN [err |-> Wrap("AttachPaymentIntent: get session", <<ErrDB>>), db |-> snap]
    ELSE IF p.SessionID \notin 1..Len(snap.sessions)
    THEN [err |-> Wrap("AttachPaymentIntent: get session", <<ErrNoRows>>), db |-> snap]
    ELSE IF snap.sessions[p.SessionID].stripe_payment_intent \notin {Null, ""}
    THEN [err |-> <<ErrPaymentIntentAlreadyAttached>>, db |-> snap]
    ELSE
    LET e == UpdateErr(fault.step = "attach stripe customer", snap.sessions,
                       cur.sessions, p.SessionID)
    IN
    IF e # ""
    THEN [err |-> Wrap("AttachPaymentIntent: attach stripe customer", <<e>>),
          db |-> snap]
    ELSE [err |-> NoErr,
          db |-> AttachStripeCustomer(snap, p.SessionID,
                                      NullIfEmpty(p.StripeCustomerID),
                                      p.StripePaymentIntent, NullIfEmpty(p.Email))]

\* AttachPaymentIntent: the error, the committed state after the call and the
\* returned session row
AttachPaymentIntent(snap, cur, p, fault) ==
    LET res == AttachPaymentIntentFn(snap, cur, p, fault)
        tx == withTx(cur, snap, res, fault)
    IN IF Is(tx.err, ErrPaymentIntentAlreadyAttached)
       THEN [err |-> <<ErrPaymentIntentAlreadyAttached>>, db |-> tx.db,
             session |-> snap.sessions[p.SessionID]]
       ELSE IF tx.err # NoErr THEN [err |-> tx.err, db |-> tx.db, session |-> ZeroSession]
       ELSE [err |-> NoErr, db |-> tx.db, session |-> tx.db.sessions[p.SessionID]]

\* ─── STATE ────────────────────────────────────────────────────────────────

VARIABLES
    db,          \* the committed database
    queue,       \* Runner.queue, the buffered channel of report ids
    worker,      \* per worker goroutine: pc, reportID, attempt, lastErr, snap
    scanner,     \* the poll goroutine: pc, pending (rows still to push), ticks
    hook,        \* the webhook handler of Spec: pc, report, deliveries
    cancelled,   \* the root context of Runner.Start is done
    outbox,      \* report-ready emails accepted by the mailer
    commits,     \* per report, PersistScoredReport calls that committed (history)
    start,       \* Runner.Start: "waiting" in wg.Wait, then "returned"
    caller,      \* per caller of StoreSpec: pc, op, arg, snap, calls, and what
                 \* its last call returned (history)
    events       \* the stripe_events table, by stripe_event_id

vars == <<db, queue, worker, scanner, hook, cancelled, outbox, commits, start, caller,
          events>>
runnerVars == <<queue, worker, scanner, hook, cancelled, outbox, commits, start>>
storeVars == <<caller, events>>

NoSnap == [sessions |-> <<>>, answers |-> <<>>, reports |-> <<>>, results |-> <<>>]

\* ─── QUESTIONS AND ANSWERS OF THE MODEL ───────────────────────────────────

RadioQ ==
    [type |-> "radio", opts |-> << <<"a">>, <<"b">> >>, p_scores |-> <<8, 2>>,
     i_scores |-> <<9, 3>>]
TextQ ==
    [type |-> "text", threshold |-> 1, p_short |-> 2, p_long |-> 3, i_short |-> 2,
     i_long |-> 7]
\* p_scores shorter than opts: Validate refuses it
BadQ ==
    [type |-> "radio", opts |-> << <<"a">>, <<"b">> >>, p_scores |-> <<8>>,
     i_scores |-> <<9, 3>>]

AnswerRow(questionID, text, cfg, isScoring) ==
    [QuestionID |-> questionID, AnswerText |-> text, Hedge |-> "static hedge",
     ScoringConfig |-> cfg, IsScoring |-> isScoring]

\* what a session may have answered: nothing; a context question only; a
\* context question and two scoring ones; a question with a bad configuration
AnswerProfiles ==
    { <<>>,
      << AnswerRow(3, <<"x">>, TextQ, FALSE) >>,
      << AnswerRow(3, <<"x">>, TextQ, FALSE), AnswerRow(2, <<"x", "y">>, TextQ, TRUE),
         AnswerRow(1, <<" ", "a">>, RadioQ, TRUE) >>,
      << AnswerRow(1, <<"a">>, RadioQ, TRUE), AnswerRow(4, <<"a">>, BadQ, TRUE) >> }

\* ai.HedgeResult values the hedging client may return (err for a failure)
EmptyHedgeResult ==
    [err |-> FALSE, Hedges |-> <<>>, ExecutiveSummary |-> "", TopPriorityHTML |-> ""]
HedgeOutcomes ==
    { [EmptyHedgeResult EXCEPT !.err = TRUE],
      [err |-> TRUE, Hedges |-> (1 :> "partial hedge"),
       ExecutiveSummary |-> "partial summary", TopPriorityHTML |-> ""],
      [err |-> FALSE, Hedges |-> (1 :> "ai hedge" @@ 2 :> "ai hedge"),
       ExecutiveSummary |-> "summary", TopPriorityHTML |-> "<p>top</p>"],
      [err |-> FALSE, Hedges |-> (1 :> "" @@ 2 :> "ai hedge 2" @@ 9 :> "ai hedge"),
       ExecutiveSummary |-> "", TopPriorityHTML |-> ""] }

PersistFaults ==
    {NoFault} \cup {Fault(s) : s \in {"begin", "set processing", "set AI hedge",
                                      "finalize report", "commit"}}
              \cup {[step |-> "insert risk", k |-> k] : k \in 1..2}

\* ─── JOB (internal/worker, Job.Run) ───────────────────────────────────────

\* Job.Run steps 1-4 without the check for a session without answers
JobLoadNoAnswerCheck(d, reportID, fault, done) ==
    IF done THEN Wrap("job: get report", <<ErrCanceled>>)
    ELSE IF fault.step = "get report" THEN Wrap("job: get report", <<ErrDB>>)
    ELSE IF reportID \notin 1..Len(d.reports) THEN Wrap("job: get report", <<ErrNoRows>>)
    ELSE IF fault.step = "get answers" THEN Wrap("job: get answers", <<ErrDB>>)
    ELSE LET rows == d.answers[d.reports[reportID].session_id] IN
         IF ComputeRisks(rows).err
         THEN Wrap("job: compute risks", <<"scoring config">>)
         ELSE NoErr

\* Job.Run steps 1-4: load the report and the answers, score.  The error of
\* the run, NoErr when it reaches PersistScoredReport.  done: ctx is done.
JobLoad(d, reportID, fault, done) ==
    IF done THEN Wrap("job: get report", <<ErrCanceled>>)
    ELSE IF fault.step = "get report" THEN Wrap("job: get report", <<ErrDB>>)
    ELSE IF reportID \notin 1..Len(d.reports) THEN Wrap("job: get report", <<ErrNoRows>>)
    ELSE IF fault.step = "get answers" THEN Wrap("job: get answers", <<ErrDB>>)
    ELSE LET rows == d.answers[d.reports[reportID].session_id] IN
         IF Len(rows) = 0 THEN <<"job: no answers found for session">>
         ELSE IF ComputeRisks(rows).err
              THEN Wrap("job: compute risks", <<"scoring config">>)
              ELSE NoErr

\* Job.Run steps 4-6 keeping what a failed hedging call returned
PersistParamsNoReset(d, reportID, hedge) ==
    LET risks == ComputeRisks(d.answers[d.reports[reportID].session_id]).risks
        priorityRisks == FilterByTier(risks, {TierWatch, TierRed})
        hedgeResult == IF Len(priorityRisks) > 0 THEN hedge ELSE EmptyHedgeResult
    IN [ReportID |-> reportID, Risks |-> risks, AIHedges |-> hedgeResult.Hedges,
        ExecutiveSummary |-> hedgeResult.ExecutiveSummary,
        TopPriorityHTML |-> hedgeResult.TopPriorityHTML]

\* Job.Run step 5: the risks sent to the hedging client
PriorityRisks(d, reportID) ==
    FilterByTier(ComputeRisks(d.answers[d.reports[reportID].session_id]).risks,
                 {TierWatch, TierRed})

\* Job.Run steps 4-6: the parameters handed to PersistScoredReport, given what
\* the hedging client returns when it is called
PersistParams(d, reportID, hedge) ==
    LET risks == ComputeRisks(d.answers[d.reports[reportID].session_id]).risks
        priorityRisks == FilterByTier(risks, {TierWatch, TierRed})
        hedgeResult == IF Len(priorityRisks) > 0 /\ ~hedge.err THEN hedge
                       ELSE EmptyHedgeResult
    IN [ReportID |-> reportID, Risks |-> risks, AIHedges |-> hedgeResult.Hedges,
        ExecutiveSummary |-> hedgeResult.ExecutiveSummary,
        TopPriorityHTML |-> hedgeResult.TopPriorityHTML]

\* Job.Run step 7 without the check of the session's email
ReportReadyMailsAnyEmail(d, reportID, loaded, accepted) ==
    LET session == d.sessions[d.reports[reportID].session_id] IN
    IF loaded /\ accepted
    THEN {[To |-> session.email, AccessToken |-> AccessToken(reportID)]}
    ELSE {}

\* Job.Run step 7: the emails sent after a commit, given whether the session
\* can be loaded and whether the mailer accepts the message
ReportReadyMails(d, reportID, loaded, accepted) ==
    LET session == d.sessions[d.reports[reportID].session_id] IN
    IF loaded /\ session.email \notin {Null, ""} /\ accepted
    THEN {[To |-> session.email, AccessToken |-> AccessToken(reportID)]}
    ELSE {}

\* ─── RUNNER (internal/worker/runner.go) ───────────────────────────────────

IdleWorker ==
    [pc |-> "idle", reportID |-> 0, attempt |-> 0, lastErr |-> NoErr, snap |-> NoSnap]

\* Runner.Enqueue as a send that always succeeds
EnqueueUnbounded(q, reportID) ==
    [err |-> NoErr, queue |-> Append(q, reportID)]

\* Runner.Enqueue and the select of pollOnce: a non-blocking send
Enqueue(q, reportID) ==
    IF Len(q) < QueueCap
    THEN [err |-> NoErr, queue |-> Append(q, reportID)]
    ELSE [err |-> <<"worker: queue is full, report will be picked up by poller">>,
          queue |-> q]

\* runWithRetry giving up after the first failed attempt
AfterFailureNoRetry(w, err) ==
    [worker EXCEPT ![w] = [@ EXCEPT !.lastErr = err, !.snap = NoSnap,
                                    !.pc = "markfail"]]

\* runWithRetry after a failed attempt: back off, or fall out of the loop
AfterFailure(w, err) ==
    [worker EXCEPT ![w] = [@ EXCEPT !.lastErr = err, !.snap = NoSnap,
                                    !.pc = IF worker[w].attempt < MaxRetries
                                           THEN "backoff" ELSE "markfail"]]

\* work: case reportID := <-r.queue, and the first iteration of runWithRetry
Dequeue(w) ==
    /\ worker[w].pc = "idle"
    /\ queue # <<>>
    /\ worker' = [worker EXCEPT ![w] = [IdleWorker EXCEPT !.pc = "attempt",
                                                          !.reportID = Head(queue),
                                                          !.attempt = 1]]
    /\ queue' = Tail(queue)
    /\ UNCHANGED <<db, scanner, hook, cancelled, outbox, commits, start, storeVars>>

\* work: case <-ctx.Done()
WorkerStop(w) ==
    /\ worker[w].pc = "idle"
    /\ cancelled
    /\ worker' = [worker EXCEPT ![w].pc = "stopped"]
    /\ UNCHANGED <<db, queue, scanner, hook, cancelled, outbox, commits, start, storeVars>>

\* Job.Run up to the first statement of PersistScoredReport's transaction
JobStart(w) ==
    /\ worker[w].pc = "attempt"
    /\ \E fault \in {NoFault, Fault("get report"), Fault("get answers")} :
         LET err == JobLoad(db, worker[w].reportID, fault, cancelled) IN
         worker' = IF err # NoErr THEN AfterFailure(w, err)
                   ELSE [worker EXCEPT ![w].pc = "persist", ![w].snap = db]
    /\ UNCHANGED <<db, queue, scanner, hook, cancelled, outbox, commits, start, storeVars>>

\* Job.Run step 6 treating a failed PersistScoredReport as a success
JobResultSwallowed(persistErr) == NoErr

\* Job.Run step 6: what the run returns for the error of PersistScoredReport
\* (NoErr: it goes on to the email and returns nil)
JobResult(persistErr) ==
    IF persistErr # NoErr THEN Wrap("job: persist report", persistErr) ELSE NoErr

\* the rest of PersistScoredReport, the email, and the return of Job.Run
JobFinish(w) ==
    /\ worker[w].pc = "persist"
    /\ \E fault \in PersistFaults, hedge \in HedgeOutcomes :
         LET id == worker[w].reportID
             res == PersistScoredReport(worker[w].snap, db,
                                        PersistParams(db, id, hedge), fault)
             err == JobResult(IF cancelled
                              THEN Wrap("store: begin transaction", <<ErrCanceled>>)
                              ELSE res.err)
         IN IF err # NoErr
            THEN /\ worker' = AfterFailure(w, err)
                 /\ db' = IF cancelled THEN db ELSE res.db
                 /\ UNCHANGED <<outbox, commits>>
            ELSE /\ worker' = [worker EXCEPT ![w] = IdleWorker]
                 /\ db' = res.db
                 /\ \E loaded, accepted \in BOOLEAN :
                      outbox' = outbox \cup ReportReadyMails(res.db, id, loaded, accepted)
                 /\ commits' = [commits EXCEPT ![id] = IF @ < CommitCap THEN @ + 1 ELSE @]
    /\ UNCHANGED <<queue, scanner, hook, cancelled, start, storeVars>>

\* runWithRetry: case <-time.After(backoff), then the next iteration.  The
\* timer starts when the select is entered, and the first channel to become
\* ready wakes the goroutine: the timer wins only when it fires before ctx is
\* done.  lastErr is not read again before the next attempt assigns it, so it
\* is cleared here.
BackoffElapsed(w) ==
    /\ worker[w].pc = "backoff"
    /\ ~cancelled
    /\ worker' = [worker EXCEPT ![w].pc = "attempt", ![w].attempt = @ + 1,
                                ![w].lastErr = NoErr]
    /\ UNCHANGED <<db, queue, scanner, hook, cancelled, outbox, commits, start, storeVars>>

\* runWithRetry leaving the back-off loop on ctx.Done() with break, not return
BackoffCancelledMarksFailed(w) ==
    /\ worker[w].pc = "backoff"
    /\ cancelled
    /\ worker' = [worker EXCEPT ![w].pc = "markfail"]
    /\ UNCHANGED <<db, queue, scanner, hook, cancelled, outbox, commits, start, storeVars>>

\* runWithRetry: case <-ctx.Done() during the back-off
BackoffCancelled(w) ==
    /\ worker[w].pc = "backoff"
    /\ cancelled
    /\ worker' = [worker EXCEPT ![w] = IdleWorker]
    /\ UNCHANGED <<db, queue, scanner, hook, cancelled, outbox, commits, start, storeVars>>

\* runWithRetry after the loop with MarkReportFailed under a context that is
\* not derived from ctx
MarkFailedDetached(w) ==
    /\ worker[w].pc = "markfail"
    /\ \E failed \in BOOLEAN :
         db' = MarkReportFailed(db, worker[w].reportID, ErrorString(worker[w].lastErr),
                                failed).db
    /\ worker' = [worker EXCEPT ![w] = IdleWorker]
    /\ UNCHANGED <<queue, scanner, hook, cancelled, outbox, commits, start, storeVars>>

\* runWithRetry after the loop: MarkReportFailed under a context derived from
\* ctx (so already done when ctx is)
MarkFailed(w) ==
    /\ worker[w].pc = "markfail"
    /\ \E failed \in BOOLEAN :
         db' = MarkReportFailed(db, worker[w].reportID, ErrorString(worker[w].lastErr),
                                failed \/ cancelled).db
    /\ worker' = [worker EXCEPT ![w] = IdleWorker]
    /\ UNCHANGED <<queue, scanner, hook, cancelled, outbox, commits, start, storeVars>>

\* pollOnce: ListPendingReports (at start-up, then on each tick)
PollList ==
    /\ \/ scanner.pc = "startup"
       \/ scanner.pc = "wait" /\ scanner.ticks < MaxTicks
    /\ \E failed \in BOOLEAN :
         LET reports == IF failed \/ cancelled THEN <<>> ELSE ListPendingReports(db) IN
         scanner' = [pc |-> IF reports = <<>> THEN "wait" ELSE "push",
                     pending |-> reports,
                     ticks |-> IF scanner.pc = "wait" THEN scanner.ticks + 1
                               ELSE scanner.ticks]
    /\ UNCHANGED <<db, queue, worker, hook, cancelled, outbox, commits, start, storeVars>>

\* pollOnce: one iteration of the loop over the listed reports
PollPush ==
    /\ scanner.pc = "push"
    /\ queue' = Enqueue(queue, Head(scanner.pending)).queue
    /\ scanner' = [scanner EXCEPT !.pending = Tail(@),
                                  !.pc = IF Tail(scanner.pending) = <<>> THEN "wait"
                                         ELSE "push"]
    /\ UNCHANGED <<db, worker, hook, cancelled, outbox, commits, start, storeVars>>

\* poll: case <-ctx.Done()
ScannerStop ==
    /\ scanner.pc = "wait"
    /\ cancelled
    /\ scanner' = [scanner EXCEPT !.pc = "stopped"]
    /\ UNCHANGED <<db, queue, worker, hook, cancelled, outbox, commits, start, storeVars>>

\* onPaymentSucceeded on a redelivered event: InitialiseReport answers
\* ErrReportAlreadyExists with the existing row
HookDeliver ==
    /\ hook.pc = "idle"
    /\ hook.deliveries < MaxDeliveries
    /\ \E s \in 1..Len(db.sessions), fault \in {NoFault, Fault("mark session paid")} :
         LET res == InitialiseReport(db, db, db.sessions[s].stripe_payment_intent, fault)
             requeue == /\ Is(res.err, ErrReportAlreadyExists)
                        /\ db.reports[res.report].status \notin {"ready", "error"}
         IN /\ hook' = [pc |-> IF requeue THEN "enqueue" ELSE "idle",
                        report |-> IF requeue THEN res.report ELSE 0,
                        deliveries |-> hook.deliveries + 1]
            /\ db' = res.db
    /\ UNCHANGED <<queue, worker, scanner, cancelled, outbox, commits, start, storeVars>>

\* onPaymentSucceeded: _ = s.worker.Enqueue(r.Context(), report.ID)
HookEnqueue ==
    /\ hook.pc = "enqueue"
    /\ queue' = Enqueue(queue, hook.report).queue
    /\ hook' = [hook EXCEPT !.pc = "idle", !.report = 0]
    /\ UNCHANGED <<db, worker, scanner, cancelled, outbox, commits, start, storeVars>>

\* the root context is cancelled (SIGINT/SIGTERM in main)
Cancel ==
    /\ ~cancelled
    /\ cancelled' = TRUE
    /\ UNCHANGED <<db, queue, worker, scanner, hook, outbox, commits, start, storeVars>>

\* Runner.wg without the count of the poller goroutine
WaitGroupWorkersOnly ==
    Cardinality({w \in WorkerIds : worker[w].pc # "stopped"})

\* Runner.wg: one count per worker goroutine and one for the poller, each
\* released by the goroutine's deferred wg.Done
WaitGroup ==
    Cardinality({w \in WorkerIds : worker[w].pc # "stopped"})
        + (IF scanner.pc # "stopped" THEN 1 ELSE 0)

\* Start: r.wg.Wait() returns
StartReturn ==
    /\ start = "waiting"
    /\ WaitGroup = 0
    /\ start' = "returned"
    /\ UNCHANGED <<db, queue, worker, scanner, hook, cancelled, outbox, commits, storeVars>>

\* a paid session with its draft report, as InitialiseReport commits them
PaidSession(k) ==
    [stripe_customer_id |-> "cus_" \o ToString(k),
     stripe_payment_intent |-> "pi_" \o ToString(k),
     email |-> "user@example.com", payment_status |-> "paid", version |-> 2]

Init ==
    /\ \E answers \in [1..NumReports -> AnswerProfiles] :
         db = [sessions |-> [k \in 1..NumReports |-> PaidSession(k)],
               answers |-> answers,
               reports |-> [k \in 1..NumReports |-> DraftReport(k)],
               results |-> <<>>]
    /\ queue = <<>>
    /\ worker = [w \in WorkerIds |-> IdleWorker]
    /\ scanner = [pc |-> "startup", pending |-> <<>>, ticks |-> 0]
    /\ hook = [pc |-> "idle", report |-> 0, deliveries |-> 0]
    /\ cancelled = FALSE
    /\ outbox = {}
    /\ commits = [k \in 1..NumReports |-> 0]
    /\ start = "waiting"
    /\ caller = <<>>
    /\ events = <<>>

Next ==
    \/ \E w \in WorkerIds : Dequeue(w)
    \/ \E w \in WorkerIds : WorkerStop(w)
    \/ \E w \in WorkerIds : JobStart(w)
    \/ \E w \in WorkerIds : JobFinish(w)
    \/ \E w \in WorkerIds : BackoffElapsed(w)
    \/ \E w \in WorkerIds : BackoffCancelled(w)
    \/ \E w \in WorkerIds : MarkFailed(w)
    \/ PollList
    \/ PollPush
    \/ ScannerStop
    \/ HookDeliver
    \/ HookEnqueue
    \/ Cancel
    \/ StartReturn

Spec == Init /\ [][Next]_vars

\* ─── CALLERS OF THE STORE (checkout and webhook handlers) ─────────────────
\* StoreSpec runs the two transactional operations of the payment path from
\* Callers goroutines at once.  A call takes two steps: the first statement
\* of its transaction fixes the snapshot, the rest runs to COMMIT or ROLLBACK.

CallerIds == 1..Callers

NoArg == [SessionID |-> 0, StripePaymentIntent |-> Null, StripeCustomerID |-> "",
          Email |-> ""]

\* what a caller keeps of a call that returned: the operation, the number of
\* the call, its argument, the calls of other callers that were running when
\* it began (with), and the returned error and row
NoReturn ==
    [op |-> "", n |-> 0, arg |-> NoArg, with |-> {}, err |-> NoErr,
     session |-> ZeroSession, report |-> 0]

IdleCaller ==
    [pc |-> "idle", op |-> "", arg |-> NoArg, snap |-> NoSnap, with |-> {}, calls |-> 0,
     ret |-> NoReturn]

\* the PaymentIntent Stripe creates for the n-th call of caller c, and its
\* customer (sessions.stripe_payment_intent and stripe_customer_id are UNIQUE)
FreshPI(c, n) == "pi_" \o ToString(c) \o "_" \o ToString(n)
FreshCustomer(c, n) == "cus_" \o ToString(c) \o "_" \o ToString(n)

\* what a checkout request carries: no email and a PaymentIntent without a
\* customer, or an email and a customer
Buyers(c, n) ==
    { [Email |-> "", StripeCustomerID |-> ""],
      [Email |-> "user@example.com", StripeCustomerID |-> FreshCustomer(c, n)] }

\* PaymentIntents an event can name: those attached to a session, and one
\* that belongs to no session
EventPIs ==
    ({db.sessions[k].stripe_payment_intent : k \in 1..Len(db.sessions)} \ {Null})
        \cup {"pi_unknown"}

AttachFaults ==
    {NoFault} \cup {Fault(s) : s \in {"begin", "get session", "attach stripe customer",
                                      "commit"}}

InitialiseFaults ==
    {NoFault} \cup {Fault(s) : s \in {"begin", "mark session paid",
                                      "check existing report", "create report",
                                      "commit"}}

\* the calls in progress: <<caller, number of the call>>
Running == {<<c, caller[c].calls>> : c \in {k \in 1..Callers : caller[k].pc = "running"}}

BeginCall(c, op, arg) ==
    [caller EXCEPT ![c] = [@ EXCEPT !.pc = "running", !.op = op, !.arg = arg,
                                    !.snap = db, !.with = Running,
                                    !.calls = @ + 1]]

EndCall(c, err, session, report) ==
    [caller EXCEPT ![c] = [IdleCaller EXCEPT
        !.calls = caller[c].calls,
        !.ret = [op |-> caller[c].op, n |-> caller[c].calls, arg |-> caller[c].arg,
                 with |-> caller[c].with,
                 err |-> err, session |-> session, report |-> report]]]

\* handleCreateCheckout: the PaymentIntent is created, AttachPaymentIntent begins
AttachBegin(c) ==
    /\ caller[c].pc = "idle"
    /\ caller[c].calls < MaxCalls
    /\ \E s \in 1..NumSessions, buyer \in Buyers(c, caller[c].calls + 1) :
         caller' = BeginCall(c, "AttachPaymentIntent",
                             [SessionID |-> s,
                              StripePaymentIntent |-> FreshPI(c, caller[c].calls + 1),
                              StripeCustomerID |-> buyer.StripeCustomerID,
                              Email |-> buyer.Email])
    /\ UNCHANGED <<db, runnerVars, events>>

\* AttachPaymentIntent runs to its end and returns
AttachReturn(c) ==
    /\ caller[c].pc = "running"
    /\ caller[c].op = "AttachPaymentIntent"
    /\ \E fault \in AttachFaults :
         LET res == AttachPaymentIntent(caller[c].snap, db, caller[c].arg, fault) IN
         /\ db' = res.db
         /\ caller' = EndCall(c, res.err, res.session, 0)
    /\ UNCHANGED <<runnerVars, events>>

\* onPaymentSucceeded: InitialiseReport begins
InitialiseBegin(c) ==
    /\ caller[c].pc = "idle"
    /\ caller[c].calls < MaxCalls
    /\ \E pi \in EventPIs :
         caller' = BeginCall(c, "InitialiseReport", [NoArg EXCEPT !.StripePaymentIntent = pi])
    /\ UNCHANGED <<db, runnerVars, events>>

\* InitialiseReport runs to its end and returns
InitialiseReturn(c) ==
    /\ caller[c].pc = "running"
    /\ caller[c].op = "InitialiseReport"
    /\ \E fault \in InitialiseFaults :
         LET res == InitialiseReport(caller[c].snap, db,
                                     caller[c].arg.StripePaymentIntent, fault) IN
         /\ db' = res.db
         /\ caller' = EndCall(c, res.err, ZeroSession, res.report)
    /\ UNCHANGED <<runnerVars, events>>

\* onPaymentFailed: MarkSessionPaymentFailed, one UPDATE outside any transaction
PaymentFailed(c) ==
    /\ caller[c].pc = "idle"
    /\ caller[c].calls < MaxCalls
    /\ \E pi \in EventPIs :
         /\ db' = MarkSessionPaymentFailed(db, pi)
         /\ caller' = [caller EXCEPT ![c] = [IdleCaller EXCEPT
                !.calls = caller[c].calls + 1,
                !.ret = [NoReturn EXCEPT
                    !.op = "MarkSessionPaymentFailed",
                    !.n = caller[c].calls + 1,
                    !.arg = [NoArg EXCEPT !.StripePaymentIntent = pi],
                    !.err = IF SessionsByPI(db, pi) = {} THEN <<ErrNoRows>> ELSE NoErr]]]
    /\ UNCHANGED <<runnerVars, events>>

StoreInit ==
    /\ db = [sessions |-> [k \in 1..NumSessions |-> NewSession],
             answers |-> [k \in 1..NumSessions |-> <<>>],
             reports |-> <<>>,
             results |-> <<>>]
    /\ caller = [c \in CallerIds |-> IdleCaller]
    /\ queue = <<>>
    /\ worker = [w \in WorkerIds |-> IdleWorker]
    /\ scanner = [pc |-> "startup", pending |-> <<>>, ticks |-> 0]
    /\ hook = [pc |-> "idle", report |-> 0, deliveries |-> 0]
    /\ cancelled = FALSE
    /\ outbox = {}
    /\ commits = <<>>
    /\ start = "waiting"
    /\ events = <<>>

StoreNext ==
    \/ \E c \in CallerIds : AttachBegin(c)
    \/ \E c \in CallerIds : AttachReturn(c)
    \/ \E c \in CallerIds : InitialiseBegin(c)
    \/ \E c \in CallerIds : InitialiseReturn(c)
    \/ \E c \in CallerIds : PaymentFailed(c)

StoreSpec == StoreInit /\ [][StoreNext]_vars

\* ─── THE RUNNER LEFT RUNNING ──────────────────────────────────────────────
\* The runner with a ticker that never stops, under the scheduling the Go
\* runtime and the timers give: every goroutine that can take a step
\* eventually takes one, and the list query does not fail for ever.

\* poll: case <-ticker.C after the ticks that are counted.  These further
\* ticks are taken when the queue is drained and no worker is busy, so that
\* the entries a report can have at a time stay bounded as under MaxTicks.
PollListUncounted ==
    /\ scanner.pc = "wait"
    /\ scanner.ticks = MaxTicks
    /\ queue = <<>>
    /\ \A w \in WorkerIds : worker[w].pc \in {"idle", "stopped"}
    /\ \E failed \in BOOLEAN :
         LET reports == IF failed \/ cancelled THEN <<>> ELSE ListPendingReports(db) IN
         scanner' = [pc |-> IF reports = <<>> THEN "wait" ELSE "push",
                     pending |-> reports,
                     ticks |-> scanner.ticks]
    /\ UNCHANGED <<db, queue, worker, hook, cancelled, outbox, commits, start, storeVars>>

\* a scan whose query returned rows
ListedSome ==
    /\ PollList \/ PollListUncounted
    /\ scanner'.pc = "push"

\* the runner and the webhook handler, with a ticker that goes on
LiveNext ==
    \/ Next
    \/ PollListUncounted

\* a worker goroutine at a select takes one of the cases that are ready, its
\* back-off timer fires, and its MarkReportFailed returns within its timeout
WorkerFairness(w) ==
    /\ WF_vars(Dequeue(w) \/ WorkerStop(w))
    /\ WF_vars(BackoffElapsed(w) \/ BackoffCancelled(w))
    /\ WF_vars(MarkFailed(w))

\* every attempt of Job.Run ends within JobTimeout: WF_vars(JobStart(w)) and
\* WF_vars(JobFinish(w)), written with the conditions that enable these
\* actions (each is enabled exactly at its pc and always leaves it)
JobFairness(w) ==
    /\ []<>(worker[w].pc # "attempt")
    /\ []<>(worker[w].pc # "persist")

\* goroutines are scheduled, timers fire, statements return within their
\* timeouts, and the database answers the list query again and again
Fairness ==
    /\ \A w \in WorkerIds : WorkerFairness(w)
    /\ \A w \in WorkerIds : JobFairness(w)
    /\ WF_vars(PollList)
    /\ WF_vars(ListedSome)
    /\ WF_vars(PollPush)
    /\ WF_vars(ScannerStop)
    /\ WF_vars(StartReturn)

LiveSpec == Init /\ [][LiveNext]_vars /\ Fairness

\* ─── JOB.RUN ON ITS OWN ───────────────────────────────────────────────────
\* Runs of Job.Run one after another on the report of Init, with what each
\* run called and returned kept in caller.

NoParams ==
    [ReportID |-> 0, Risks |-> <<>>, AIHedges |-> <<>>, ExecutiveSummary |-> "",
     TopPriorityHTML |-> ""]

NoRun ==
    [op |-> "", runs |-> 0, before |-> "", hedgerCalled |-> FALSE,
     hedge |-> EmptyHedgeResult, persistCalled |-> FALSE, params |-> NoParams,
     persistErr |-> NoErr, mailerCalled |-> FALSE, err |-> NoErr]

\* Job.Run from its first statement to its return
RunJob ==
    /\ caller.runs < MaxRuns
    /\ \E loadFault \in {NoFault, Fault("get report"), Fault("get answers")},
          hedge \in HedgeOutcomes, fault \in PersistFaults,
          loaded \in BOOLEAN, accepted \in BOOLEAN :
         LET id == 1
             loadErr == JobLoad(db, id, loadFault, FALSE)
             res == PersistScoredReport(db, db, PersistParams(db, id, hedge), fault)
             ran == [NoRun EXCEPT !.op = "Job.Run", !.runs = caller.runs + 1,
                                  !.before = db.reports[id].status]
         IN IF loadErr # NoErr
            THEN /\ caller' = [ran EXCEPT !.err = loadErr]
                 /\ UNCHANGED <<db, outbox>>
            ELSE /\ caller' = [ran EXCEPT
                        !.hedgerCalled = Len(PriorityRisks(db, id)) > 0,
                        !.hedge = IF Len(PriorityRisks(db, id)) > 0 THEN hedge
                                  ELSE EmptyHedgeResult,
                        !.persistCalled = TRUE,
                        !.params = PersistParams(db, id, hedge),
                        !.persistErr = res.err,
                        !.mailerCalled =
                            /\ res.err = NoErr
                            /\ loaded
                            /\ res.db.sessions[res.db.reports[id].session_id].email
                                   \notin {Null, ""},
                        !.err = JobResult(res.err)]
                 /\ db' = res.db
                 /\ outbox' = IF res.err = NoErr
                               THEN outbox \cup ReportReadyMails(res.db, id, loaded, accepted)
                               ELSE outbox
    /\ UNCHANGED <<queue, worker, scanner, hook, cancelled, commits, start, events>>

\* sessions.email CITEXT, nullable: NULL, empty, or an address
ContactEmails == {Null, "", "user@example.com"}

JobInit ==
    /\ \E answers \in [1..NumReports -> AnswerProfiles], email \in ContactEmails :
         db = [sessions |-> [k \in 1..NumReports |->
                                [PaidSession(k) EXCEPT !.email = email]],
               answers |-> answers,
               reports |-> [k \in 1..NumReports |-> DraftReport(k)],
               results |-> <<>>]
    /\ caller = NoRun
    /\ queue = <<>>
    /\ worker = [w \in WorkerIds |-> IdleWorker]
    /\ scanner = [pc |-> "startup", pending |-> <<>>, ticks |-> 0]
    /\ hook = [pc |-> "idle", report |-> 0, deliveries |-> 0]
    /\ cancelled = FALSE
    /\ outbox = {}
    /\ commits = [k \in 1..NumReports |-> 0]
    /\ start = "waiting"
    /\ events = <<>>

JobNext == RunJob

JobSpec == JobInit /\ [][JobNext]_vars

\* ─── HEDGING CLIENT WITH FALLBACK (internal/ai) ───────────────────────────

\* ai.HedgeResult{}
EmptyResult == [Hedges |-> <<>>, ExecutiveSummary |-> "", TopPriorityHTML |-> ""]

\* a Hedger that is not configured (a nil interface value)
NilHedger == [kind |-> "nil", result |-> EmptyResult, err |-> NoErr]

\* Hedger implementations: stand-ins that answer every call alike (the
\* stubHedger of the tests), and providers, which answer an empty risk set
\* with the empty result before doing anything else
Hedgers ==
    {NilHedger}
      \cup { [kind |-> k, result |-> r, err |-> e] :
               k \in {"stub", "provider"},
               r \in { [Hedges |-> (1 :> "ai hedge"), ExecutiveSummary |-> "summary",
                        TopPriorityHTML |-> "<p>top</p>"],
                       [Hedges |-> <<>>, ExecutiveSummary |-> "summary only",
                        TopPriorityHTML |-> ""] },
               e \in {NoErr, <<"anthropic timeout">>} }
      \cup { [kind |-> "stub", result |-> EmptyResult, err |-> <<"deepseek timeout">>] }

\* the risk sets GenerateHedges is called with: the watch and red risks of
\* the answer profiles, the empty set among them
RiskSets ==
    { FilterByTier(ComputeRisks(a).risks, {TierWatch, TierRed}) : a \in AnswerProfiles }

\* h.GenerateHedges(ctx, risks) for a configured Hedger
CallHedger(h, risks) ==
    IF h.kind = "provider" /\ Len(risks) = 0
    THEN [result |-> EmptyResult, err |-> NoErr]
    ELSE [result |-> h.result, err |-> h.err]

\* fallbackHedger.GenerateHedges calling both implementations every time
FallbackCallsBoth(primary, secondary, risks) ==
    LET first == CallHedger(primary, risks)
        second == CallHedger(secondary, risks)
    IN IF primary.kind # "nil" /\ first.err = NoErr
       THEN [result |-> first.result, err |-> NoErr, primaryCalls |-> 1,
             secondaryCalls |-> IF secondary.kind = "nil" THEN 0 ELSE 1,
             panic |-> FALSE]
       ELSE [result |-> second.result, err |-> second.err,
             primaryCalls |-> IF primary.kind # "nil" THEN 1 ELSE 0,
             secondaryCalls |-> 1, panic |-> secondary.kind = "nil"]

\* fallbackHedger.GenerateHedges: what it returns, how often it called each
\* implementation, and whether it panicked on a nil secondary
FallbackGenerateHedges(primary, secondary, risks) ==
    LET first == CallHedger(primary, risks)
        second == CallHedger(secondary, risks)
        answer(r, p, s) == [result |-> r.result, err |-> r.err, primaryCalls |-> p,
                            secondaryCalls |-> s, panic |-> FALSE]
    IN IF primary.kind # "nil" /\ first.err = NoErr
       THEN answer(first, 1, 0)
       ELSE IF primary.kind # "nil" /\ secondary.kind = "nil"
       THEN answer([result |-> EmptyResult,
                    err |-> Wrap("ai: primary failed and no secondary configured",
                                 first.err)], 1, 0)
       ELSE IF secondary.kind = "nil"
       THEN [result |-> EmptyResult, err |-> NoErr, primaryCalls |-> 0,
             secondaryCalls |-> 0, panic |-> TRUE]
       ELSE answer(second, IF primary.kind # "nil" THEN 1 ELSE 0, 1)

NoHedgerCall ==
    [op |-> "", primary |-> NilHedger, secondary |-> NilHedger, risks |-> <<>>,
     ret |-> [result |-> EmptyResult, err |-> NoErr, primaryCalls |-> 0,
              secondaryCalls |-> 0, panic |-> FALSE]]

\* a call of GenerateHedges on a fallbackHedger returns (or panics)
GenerateHedgesCall ==
    /\ \E primary \in Hedgers, secondary \in Hedgers, risks \in RiskSets :
         caller' = [op |-> "GenerateHedges", primary |-> primary,
                    secondary |-> secondary, risks |-> risks,
                    ret |-> FallbackGenerateHedges(primary, secondary, risks)]
    /\ UNCHANGED <<db, runnerVars, events>>

HedgerInit ==
    /\ db = [sessions |-> <<>>, answers |-> <<>>, reports |-> <<>>, results |-> <<>>]
    /\ caller = NoHedgerCall
    /\ queue = <<>>
    /\ worker = [w \in WorkerIds |-> IdleWorker]
    /\ scanner = [pc |-> "startup", pending |-> <<>>, ticks |-> 0]
    /\ hook = [pc |-> "idle", report |-> 0, deliveries |-> 0]
    /\ cancelled = FALSE
    /\ outbox = {}
    /\ commits = <<>>
    /\ start = "waiting"
    /\ events = <<>>

HedgerNext == GenerateHedgesCall

HedgerSpec == HedgerInit /\ [][HedgerNext]_vars

\* ─── ENQUEUE ON ITS OWN ───────────────────────────────────────────────────
\* Callers of Runner.Enqueue (the webhook handler) against receivers of the
\* channel, with the returned error kept in caller.

EnqueuedIds == 1..NumQueued

\* a call of Runner.Enqueue returns
EnqueueCall ==
    /\ \E reportID \in EnqueuedIds :
         LET res == Enqueue(queue, reportID) IN
         /\ queue' = res.queue
         /\ caller' = [op |-> "Enqueue", reportID |-> reportID, err |-> res.err]
    /\ UNCHANGED <<db, worker, scanner, hook, cancelled, outbox, commits, start, events>>

\* work: a worker receives from the channel
Receive ==
    /\ queue # <<>>
    /\ queue' = Tail(queue)
    /\ UNCHANGED <<db, worker, scanner, hook, cancelled, outbox, commits, start, caller,
                   events>>

EnqueueInit ==
    /\ db = [sessions |-> <<>>, answers |-> <<>>, reports |-> <<>>, results |-> <<>>]
    /\ queue = <<>>
    /\ worker = [w \in WorkerIds |-> IdleWorker]
    /\ scanner = [pc |-> "startup", pending |-> <<>>, ticks |-> 0]
    /\ hook = [pc |-> "idle", report |-> 0, deliveries |-> 0]
    /\ cancelled = FALSE
    /\ outbox = {}
    /\ commits = <<>>
    /\ start = "waiting"
    /\ caller = [op |-> "", reportID |-> 0, err |-> NoErr]
    /\ events = <<>>

EnqueueNext ==
    \/ EnqueueCall
    \/ Receive

EnqueueSpec == EnqueueInit /\ [][EnqueueNext]_vars

\* ─── PROPERTIES OF THE RUNNER AND THE JOB ─────────────────────────────────

\* ─── WEBHOOK HANDLER (internal/api, POST /api/webhooks/stripe) ────────────
\* WebhookSpec: concurrent deliveries to handleStripeWebhook.  A delivery
\* takes two steps: the request up to and including UpsertStripeEvent, one
\* statement that the database runs atomically, and then the dispatch by
\* event type with the final MarkStripeEventProcessed/Failed and the answer.
\* caller[c] is the handler goroutine of connection c; it serves MaxCalls
\* deliveries.

\* stripe.Event: the identifier, the type, and of DataRaw the id of
\* data.object ("" when it has none).  An identifier names one event,
\* however often Stripe delivers it.
StripeEvents ==
    { [ID |-> "evt_1", Type |-> "payment_intent.succeeded", PI |-> "pi_1"],
      [ID |-> "evt_2", Type |-> "payment_intent.succeeded", PI |-> "pi_1"],
      [ID |-> "evt_3", Type |-> "payment_intent.succeeded", PI |-> ""],
      [ID |-> "evt_4", Type |-> "payment_intent.payment_failed", PI |-> "pi_2"],
      [ID |-> "evt_5", Type |-> "charge.refunded", PI |-> "pi_1"],
      [ID |-> "evt_6", Type |-> "customer.created", PI |-> ""] }

NoEvent == [ID |-> "", Type |-> "", PI |-> ""]

ToUpsertParams(event, rawPayload) ==
    [StripeEventID |-> event.ID, Type |-> event.Type, Payload |-> rawPayload]

ToMarkFailedParams(eventID, err) ==
    [StripeEventID |-> eventID, Error |-> ErrorString(err)]

ExtractPaymentIntentID(event) ==
    IF event.PI = ""
    THEN [id |-> "", err |-> <<"stripe: payment intent id is empty in event " \o event.ID>>]
    ELSE [id |-> event.PI, err |-> NoErr]

\* the row UpsertStripeEvent inserts: the other columns take their defaults
StripeEventRow(p) ==
    [type |-> p.Type, payload |-> p.Payload, processed |-> FALSE,
     processed_at |-> Null, error |-> Null]

\* UpsertStripeEvent written as ON CONFLICT (stripe_event_id) DO UPDATE: the
\* statement returns the row of a known identifier too
UpsertStripeEventOverwrite(tbl, p, failed) ==
    IF failed THEN [err |-> <<ErrDB>>, events |-> tbl]
    ELSE [err |-> NoErr, events |-> (p.StripeEventID :> StripeEventRow(p)) @@ tbl]

\* UpsertStripeEvent :one, INSERT ... ON CONFLICT (stripe_event_id) DO NOTHING
\* RETURNING *: no row comes back for a known identifier (sql.ErrNoRows)
UpsertStripeEvent(tbl, p, failed) ==
    IF failed THEN [err |-> <<ErrDB>>, events |-> tbl]
    ELSE IF p.StripeEventID \in DOMAIN tbl THEN [err |-> <<ErrNoRows>>, events |-> tbl]
    ELSE [err |-> NoErr, events |-> (p.StripeEventID :> StripeEventRow(p)) @@ tbl]

\* MarkStripeEventProcessed :one (the handler drops its result and error)
MarkStripeEventProcessed(tbl, id, failed) ==
    IF failed \/ id \notin DOMAIN tbl THEN tbl
    ELSE [tbl EXCEPT ![id] = [@ EXCEPT !.processed = TRUE, !.processed_at = "now"]]

\* MarkStripeEventFailed :one (the handler drops its result and error)
MarkStripeEventFailed(tbl, p, failed) ==
    IF failed \/ p.StripeEventID \notin DOMAIN tbl THEN tbl
    ELSE [tbl EXCEPT ![p.StripeEventID] = [@ EXCEPT !.processed = FALSE,
                                                   !.error = p.Error]]

\* email.ReceiptParams of onPaymentSucceeded
Receipt(session) == [To |-> session.email, AmountCents |-> 5900, Currency |-> "usd"]

\* what an event handler leaves: its error, the database, the queue, the
\* mails the mailer accepted, and the calls it made, in order
Handled(err, d, q, mail, trace) ==
    [err |-> err, db |-> d, queue |-> q, outbox |-> mail, trace |-> trace]

\* the test of onPaymentSucceeded with "error" left out
NeedsEnqueueUnlessReady(status) == status # "ready"

\* report.Status != "ready" && report.Status != "error"
NeedsEnqueue(status) == status \notin {"ready", "error"}

onPaymentSucceeded(d, q, mail, event, fault, accepted) ==
    LET pi == ExtractPaymentIntentID(event) IN
    IF pi.err # NoErr
    THEN Handled(Wrap("onPaymentSucceeded: extract PI id", pi.err), d, q, mail, <<>>)
    ELSE
    LET res == InitialiseReport(d, d, pi.id, fault) IN
    IF Is(res.err, ErrReportAlreadyExists)
    THEN IF NeedsEnqueue(res.db.reports[res.report].status)
         THEN Handled(NoErr, res.db, Enqueue(q, res.report).queue, mail,
                      <<"InitialiseReport", "Enqueue">>)
         ELSE Handled(NoErr, res.db, q, mail, <<"InitialiseReport">>)
    ELSE IF res.err # NoErr
    THEN Handled(Wrap("onPaymentSucceeded: initialise report", res.err), res.db, q, mail,
                 <<"InitialiseReport">>)
    ELSE
    LET session == res.db.sessions[res.db.reports[res.report].session_id]
        send == fault.step # "get session by id" /\ session.email # Null
    IN Handled(NoErr, res.db, Enqueue(q, res.report).queue,
               IF send /\ accepted THEN mail \cup {Receipt(session)} ELSE mail,
               <<"InitialiseReport", "GetSessionByID">>
                   \o (IF send THEN <<"SendReceipt">> ELSE <<>>) \o <<"Enqueue">>)

onPaymentFailed(d, q, mail, event, fault) ==
    LET pi == ExtractPaymentIntentID(event) IN
    IF pi.err # NoErr
    THEN Handled(Wrap("onPaymentFailed: extract PI id", pi.err), d, q, mail, <<>>)
    ELSE IF fault.step = "mark session failed"
    THEN Handled(Wrap("onPaymentFailed: mark session failed", <<ErrDB>>), d, q, mail,
                 <<"MarkSessionPaymentFailed">>)
    ELSE IF SessionsByPI(d, pi.id) = {}
    THEN Handled(Wrap("onPaymentFailed: mark session failed", <<ErrNoRows>>), d, q, mail,
                 <<"MarkSessionPaymentFailed">>)
    ELSE Handled(NoErr, MarkSessionPaymentFailed(d, pi.id), q, mail,
                 <<"MarkSessionPaymentFailed">>)

\* it only logs the refund
onChargeRefunded(d, q, mail, event) == Handled(NoErr, d, q, mail, <<>>)

\* handleStripeWebhook, step 4: the switch on event.Type
DispatchEvent(d, q, mail, event, fault, accepted) ==
    IF event.Type = "payment_intent.succeeded"
    THEN onPaymentSucceeded(d, q, mail, event, fault, accepted)
    ELSE IF event.Type = "payment_intent.payment_failed"
    THEN onPaymentFailed(d, q, mail, event, fault)
    ELSE IF event.Type = "charge.refunded"
    THEN onChargeRefunded(d, q, mail, event)
    ELSE Handled(NoErr, d, q, mail, <<>>)

\* a handler goroutine: the event of its delivery, the number of deliveries
\* it served, and of the last one the calls made, the error of the upsert and
\* the HTTP status answered (0 until it answers)
IdleHandler ==
    [pc |-> "idle", event |-> NoEvent, calls |-> 0, trace |-> <<>>,
     upsertErr |-> NoErr, status |-> 0]

\* what a request can be: a body that cannot be read, a body whose signature
\* does not verify, or an event that VerifyWebhook returns
Requests == {"unreadable", "bad signature", "verified"}

DispatchFaults ==
    InitialiseFaults \cup {Fault("get session by id"), Fault("mark session failed"),
                           Fault("mark event")}

\* handleStripeWebhook, steps 1 to 3
WebhookReceive(c) ==
    /\ caller[c].pc = "idle"
    /\ caller[c].calls < MaxCalls
    /\ \E kind \in Requests, req \in StripeEvents, failed \in BOOLEAN :
         LET served == [IdleHandler EXCEPT !.calls = caller[c].calls + 1] IN
         IF kind = "unreadable"
         THEN /\ caller' = [caller EXCEPT ![c] = [served EXCEPT !.status = 400]]
              /\ UNCHANGED events
         ELSE IF kind = "bad signature"
         THEN /\ caller' = [caller EXCEPT ![c] =
                    [served EXCEPT !.status = 400, !.trace = <<"VerifyWebhook">>]]
              /\ UNCHANGED events
         ELSE
         LET res == UpsertStripeEvent(events, ToUpsertParams(req, req), failed)
             got == [served EXCEPT !.event = req, !.upsertErr = res.err,
                                   !.trace = <<"VerifyWebhook", "UpsertStripeEvent">>]
         IN
         /\ events' = res.events
         /\ caller' = [caller EXCEPT ![c] =
                IF Is(res.err, ErrNoRows) THEN [got EXCEPT !.status = 200]
                ELSE IF res.err # NoErr THEN [got EXCEPT !.status = 500]
                ELSE [got EXCEPT !.pc = "dispatch"]]
    /\ UNCHANGED <<db, queue, outbox>>
    /\ UNCHANGED <<worker, scanner, hook, cancelled, commits, start>>

\* handleStripeWebhook, steps 4 and 5
WebhookDispatch(c) ==
    /\ caller[c].pc = "dispatch"
    /\ \E fault \in DispatchFaults, accepted \in BOOLEAN :
         LET event == caller[c].event
             h == DispatchEvent(db, queue, outbox, event, fault, accepted)
             markFailed == fault.step = "mark event"
         IN
         /\ db' = h.db
         /\ queue' = h.queue
         /\ outbox' = h.outbox
         /\ IF h.err # NoErr
            THEN /\ events' = MarkStripeEventFailed(events,
                                  ToMarkFailedParams(event.ID, h.err), markFailed)
                 /\ caller' = [caller EXCEPT ![c] = [@ EXCEPT
                        !.pc = "idle", !.status = 500,
                        !.trace = @ \o h.trace \o <<"MarkStripeEventFailed">>]]
            ELSE /\ events' = MarkStripeEventProcessed(events, event.ID, markFailed)
                 /\ caller' = [caller EXCEPT ![c] = [@ EXCEPT
                        !.pc = "idle", !.status = 200,
                        !.trace = @ \o h.trace \o <<"MarkStripeEventProcessed">>]]
    /\ UNCHANGED <<worker, scanner, hook, cancelled, commits, start>>

\* a session after checkout: the PaymentIntent attached, the payment pending
CheckedOutSession(k, email) ==
    [stripe_customer_id |-> "cus_" \o ToString(k),
     stripe_payment_intent |-> "pi_" \o ToString(k),
     email |-> email, payment_status |-> "pending", version |-> 1]

WebhookInit ==
    /\ \E email \in {Null, "user@example.com"} :
         db = [sessions |-> <<CheckedOutSession(1, email),
                              CheckedOutSession(2, "user@example.com")>>,
               answers |-> <<<<>>, <<>>>>,
               reports |-> <<>>,
               results |-> <<>>]
    /\ events = <<>>
    /\ caller = [c \in CallerIds |-> IdleHandler]
    /\ queue = <<>>
    /\ worker = [w \in WorkerIds |-> IdleWorker]
    /\ scanner = [pc |-> "startup", pending |-> <<>>, ticks |-> 0]
    /\ hook = [pc |-> "idle", report |-> 0, deliveries |-> 0]
    /\ cancelled = FALSE
    /\ outbox = {}
    /\ commits = <<>>
    /\ start = "waiting"

WebhookNext ==
    \/ \E c \in CallerIds : WebhookReceive(c)
    \/ \E c \in CallerIds : WebhookDispatch(c)

WebhookSpec == WebhookInit /\ [][WebhookNext]_vars

\* ─── REPORT ACCESS (internal/api, GET /api/report/{accessToken}) ──────────
\* AccessSpec: a client polling handleGetReport while the worker commits.
\* The handler issues its two queries one after the other, outside any
\* transaction, so a commit can fall between them; Generate and Fail are the
\* commits of PersistScoredReport and MarkReportFailed that Job.Run and
\* runWithRetry make.

\* sql.NullString.String: "" for NULL
StringOf(v) == IF v = Null THEN "" ELSE v

\* the tokens a client sends: that of the report, one of no report, none
AccessTokens == {AccessToken(1), AccessToken(0), <<>>}

\* GetReportByAccessToken :one; access_token is UNIQUE. 0 for sql.ErrNoRows
GetReportByAccessToken(d, accessToken) ==
    LET found == {k \in 1..Len(d.reports) : AccessToken(k) = accessToken} IN
    IF found = {} THEN 0 ELSE Min(found)

\* ORDER BY rank, over rows listed in table order
RECURSIVE InsertByRank(_, _)
InsertByRank(row, sorted) ==
    IF sorted = <<>> THEN <<row>>
    ELSE IF row.rank < Head(sorted).rank THEN <<row>> \o sorted
    ELSE <<Head(sorted)>> \o InsertByRank(row, Tail(sorted))

RECURSIVE OrderByRank(_)
OrderByRank(rows) ==
    IF rows = <<>> THEN <<>>
    ELSE InsertByRank(rows[Len(rows)], OrderByRank(SubSeq(rows, 1, Len(rows) - 1)))

\* GetRiskResultsByReport :many
GetRiskResultsByReport(d, reportID) ==
    OrderByRank(SelectSeq(d.results, LAMBDA rr : rr.report_id = reportID))

\* reportRiskResponse of one risk_results row
RiskResponse(rr) ==
    [Rank |-> rr.rank, QuestionID |-> rr.question_id, Probability |-> rr.probability,
     Impact |-> rr.impact, Score |-> rr.score, Tier |-> rr.tier,
     Hedge |-> IF rr.ai_hedge # Null /\ rr.ai_hedge # "" THEN rr.ai_hedge ELSE rr.hedge]

\* reportResponse
ReportResponse(reportID, row, results) ==
    [ReportID |-> reportID, Status |-> row.status,
     OverallScore |-> row.overall_score.Int16,
     CriticalCount |-> row.critical_count.Int16,
     ExecutiveSummary |-> StringOf(row.executive_summary),
     TopPriorityHTML |-> StringOf(row.top_priority_html),
     Risks |-> [k \in 1..Len(results) |-> RiskResponse(results[k])],
     GeneratedAt |-> StringOf(row.generated_at)]

\* respondErr / respondInternalErr
ErrorBody(msg) == [error |-> msg]

\* the 202 body
PollAgainBody(row) ==
    [status |-> row.status,
     message |-> "report is being generated, please check back shortly"]

\* handleGetReport's test of the status, as a test for draft only
StillGeneratingDraftOnly(row) == row.status = "draft"

\* handleGetReport: row.Status != db.ReportStatusReady
StillGenerating(row) == row.status # "ready"

\* the client: the token of its request, the requests made, the report row
\* the first query returned (id 0 for none), and the answer
NoResponse == [code |-> 0, body |-> ErrorBody("")]

IdleClient ==
    [pc |-> "idle", calls |-> 0, token |-> <<>>, id |-> 0, row |-> DraftReport(0),
     failed |-> FALSE, resp |-> NoResponse]

\* requests the client makes
MaxRequests == 3

\* handleGetReport up to the answer or to the second query
GetReportLookup ==
    /\ caller.pc = "idle"
    /\ caller.calls < MaxRequests
    /\ \E accessToken \in AccessTokens, failed \in BOOLEAN :
         LET id == GetReportByAccessToken(db, accessToken)
             req == [IdleClient EXCEPT !.calls = caller.calls + 1,
                                       !.token = accessToken]
         IN caller' =
              IF accessToken = <<>>
              THEN [req EXCEPT !.resp = [code |-> 400,
                                         body |-> ErrorBody("missing access token")]]
              ELSE IF failed
              THEN [req EXCEPT !.failed = TRUE,
                               !.resp = [code |-> 500,
                                         body |-> ErrorBody("internal server error")]]
              ELSE IF id = 0
              THEN [req EXCEPT !.resp = [code |-> 404,
                                         body |-> ErrorBody("report not found")]]
              ELSE IF StillGenerating(db.reports[id])
              THEN [req EXCEPT !.id = id, !.row = db.reports[id],
                               !.resp = [code |-> 202,
                                         body |-> PollAgainBody(db.reports[id])]]
              ELSE [req EXCEPT !.pc = "rows", !.id = id, !.row = db.reports[id]]
    /\ UNCHANGED <<db, runnerVars, events>>

\* handleGetReport from GetRiskResultsByReport to the answer
GetReportRows ==
    /\ caller.pc = "rows"
    /\ \E failed \in BOOLEAN :
         caller' =
           IF failed
           THEN [caller EXCEPT !.pc = "idle", !.failed = TRUE,
                               !.resp = [code |-> 500,
                                         body |-> ErrorBody("internal server error")]]
           ELSE [caller EXCEPT !.pc = "idle",
                               !.resp = [code |-> 200,
                                         body |-> ReportResponse(caller.id, caller.row,
                                             GetRiskResultsByReport(db, caller.id))]]
    /\ UNCHANGED <<db, runnerVars, events>>

\* Job.Run reaches PersistScoredReport and the transaction commits; commits
\* counts the commits to the report, at most CommitCap
Generate ==
    /\ commits[1] < CommitCap
    /\ JobLoad(db, 1, NoFault, FALSE) = NoErr
    /\ \E hedge \in HedgeOutcomes, fault \in PersistFaults :
         db' = PersistScoredReport(db, db, PersistParams(db, 1, hedge), fault).db
    /\ db' # db
    /\ commits' = [commits EXCEPT ![1] = @ + 1]
    /\ UNCHANGED <<queue, worker, scanner, hook, cancelled, outbox, start, storeVars>>

\* runWithRetry gives up: MarkReportFailed
Fail ==
    /\ commits[1] < CommitCap
    /\ db.reports[1].status # "error"
    /\ db' = MarkReportFailed(db, 1, "job: attempt failed", FALSE).db
    /\ commits' = [commits EXCEPT ![1] = @ + 1]
    /\ UNCHANGED <<queue, worker, scanner, hook, cancelled, outbox, start, storeVars>>

AccessInit ==
    /\ \E answers \in [1..NumReports -> AnswerProfiles] :
         db = [sessions |-> [k \in 1..NumReports |-> PaidSession(k)],
               answers |-> answers,
               reports |-> [k \in 1..NumReports |-> DraftReport(k)],
               results |-> <<>>]
    /\ caller = IdleClient
    /\ queue = <<>>
    /\ worker = [w \in WorkerIds |-> IdleWorker]
    /\ scanner = [pc |-> "startup", pending |-> <<>>, ticks |-> 0]
    /\ hook = [pc |-> "idle", report |-> 0, deliveries |-> 0]
    /\ cancelled = FALSE
    /\ outbox = {}
    /\ commits = [k \in 1..NumReports |-> 0]
    /\ start = "waiting"
    /\ events = <<>>

AccessNext == GetReportLookup \/ GetReportRows \/ Generate \/ Fail

AccessSpec == AccessInit /\ [][AccessNext]_vars

\* ─── THE PAYMENT-SUCCEEDED HANDLER ON ITS OWN (internal/api) ──────────────
\* PaymentSpec: calls of onPaymentSucceeded one after another, while the
\* worker receives from the queue and commits or fails the first report.
\* caller is the last call: the event, what InitialiseReport returned to the
\* handler, the status the existing report had, whether the queue was full,
\* and the handler's error and calls.

MaxPayments == 5

\* payment_intent.succeeded events, for the intents of both sessions
SucceededEvents ==
    {e \in StripeEvents : e.Type = "payment_intent.succeeded"}
        \cup {[ID |-> "evt_7", Type |-> "payment_intent.succeeded", PI |-> "pi_2"]}

PaymentFaults == InitialiseFaults \cup {Fault("get session by id")}

NoPayment ==
    [op |-> "", calls |-> 0, event |-> NoEvent, initErr |-> NoErr, report |-> 0,
     before |-> "", full |-> FALSE, err |-> NoErr, trace |-> <<>>]

\* onPaymentSucceeded from its first statement to its return
PaymentSucceeded ==
    /\ caller.calls < MaxPayments
    /\ \E event \in SucceededEvents, fault \in PaymentFaults, accepted \in BOOLEAN :
         LET h == onPaymentSucceeded(db, queue, outbox, event, fault, accepted)
             pi == ExtractPaymentIntentID(event)
             init == IF pi.err # NoErr THEN [err |-> pi.err, report |-> 0]
                     ELSE InitialiseReport(db, db, pi.id, fault)
             existed == init.report \in 1..Len(db.reports)
         IN /\ db' = h.db
            /\ queue' = h.queue
            /\ outbox' = h.outbox
            /\ caller' = [op |-> "onPaymentSucceeded", calls |-> caller.calls + 1,
                          event |-> event, initErr |-> init.err,
                          report |-> init.report,
                          before |-> IF existed THEN db.reports[init.report].status
                                     ELSE "",
                          full |-> Len(queue) >= QueueCap,
                          err |-> h.err, trace |-> h.trace]
    /\ UNCHANGED <<worker, scanner, hook, cancelled, commits, start, events>>

\* the worker commits the first report as ready
ReportGenerated ==
    /\ Len(db.reports) >= 1
    /\ Generate

\* the worker gives the first report up
ReportFailed ==
    /\ Len(db.reports) >= 1
    /\ Fail

PaymentInit ==
    /\ \E email \in {Null, "user@example.com"} :
         db = [sessions |-> <<CheckedOutSession(1, email),
                              CheckedOutSession(2, "user@example.com")>>,
               answers |-> << << AnswerRow(1, <<"a">>, RadioQ, TRUE) >>,
                              << AnswerRow(1, <<"a">>, RadioQ, TRUE) >> >>,
               reports |-> <<>>,
               results |-> <<>>]
    /\ events = <<>>
    /\ caller = NoPayment
    /\ queue = <<>>
    /\ worker = [w \in WorkerIds |-> IdleWorker]
    /\ scanner = [pc |-> "startup", pending |-> <<>>, ticks |-> 0]
    /\ hook = [pc |-> "idle", report |-> 0, deliveries |-> 0]
    /\ cancelled = FALSE
    /\ outbox = {}
    /\ commits = <<0>>
    /\ start = "waiting"

PaymentNext ==
    \/ PaymentSucceeded
    \/ Receive
    \/ ReportGenerated
    \/ ReportFailed

PaymentSpec == PaymentInit /\ [][PaymentNext]_vars

\* ─── THE RUNNER UNDER LOAD (internal/worker/runner.go) ────────────────────
\* PoolSpec: the workers and the scanner of a Runner with up to MaxEnqueues
\* calls of Enqueue, enough to fill the channel while every worker is busy.
\* caller counts the calls.  The Runner sees of Job.Run its returned error
\* only, so here an attempt returns nil or an error and writes nothing.

MaxEnqueues == 6

\* Runner.Enqueue called for a report of the database, its error dropped
EnqueueAny ==
    /\ caller.calls < MaxEnqueues
    /\ \E reportID \in 1..Len(db.reports) :
         queue' = Enqueue(queue, reportID).queue
    /\ caller' = [op |-> "Enqueue", calls |-> caller.calls + 1]
    /\ UNCHANGED <<db, worker, scanner, hook, cancelled, outbox, commits, start, events>>

\* runWithRetry: r.job.Run(jobCtx, reportID) returns
AttemptReturns(w) ==
    /\ worker[w].pc = "attempt"
    /\ \E ok \in BOOLEAN :
         worker' = IF ok THEN [worker EXCEPT ![w] = IdleWorker]
                   ELSE AfterFailure(w, <<"job: run failed">>)
    /\ UNCHANGED <<db, queue, scanner, hook, cancelled, outbox, commits, start,
                   storeVars>>

PoolInit ==
    /\ db = [sessions |-> [k \in 1..NumReports |-> PaidSession(k)],
             answers |-> [k \in 1..NumReports |->
                             << AnswerRow(1, <<"a">>, RadioQ, TRUE) >>],
             reports |-> [k \in 1..NumReports |-> DraftReport(k)],
             results |-> <<>>]
    /\ queue = <<>>
    /\ worker = [w \in WorkerIds |-> IdleWorker]
    /\ scanner = [pc |-> "startup", pending |-> <<>>, ticks |-> 0]
    /\ hook = [pc |-> "idle", report |-> 0, deliveries |-> 0]
    /\ cancelled = FALSE
    /\ outbox = {}
    /\ commits = [k \in 1..NumReports |-> 0]
    /\ start = "waiting"
    /\ caller = [op |-> "", calls |-> 0]
    /\ events = <<>>

PoolNext ==
    \/ EnqueueAny
    \/ PollList
    \/ PollPush
    \/ \E w \in WorkerIds : Dequeue(w)
    \/ \E w \in WorkerIds : AttemptReturns(w)
    \/ \E w \in WorkerIds : BackoffElapsed(w)
    \/ \E w \in WorkerIds : MarkFailed(w)

PoolSpec == PoolInit /\ [][PoolNext]_vars

\* ─── SCORING ON ITS OWN (internal/scoring) ────────────────────────────────
\* ScoringSpec: calls of the pure functions of the scoring package with
\* configurations and answers drawn from bounded sets; caller is the last call.

\* characters of an answer
MaxAnswerLen == 3

Alphabet == {" ", "\t", "a", "b", "U+00E9"}

\* every answer of at most MaxAnswerLen characters
Answers == UNION {[1..n -> Alphabet] : n \in 0..MaxAnswerLen}

\* a radio table with a repeated option
RepeatedOptQ ==
    [type |-> "radio", opts |-> << <<"a">>, <<"a">>, <<"b">> >>, p_scores |-> <<3, 7, 5>>,
     i_scores |-> <<4, 6, 10>>]

\* a radio table with an empty option and an option that begins with a space
EmptyOptQ ==
    [type |-> "radio", opts |-> << <<>>, <<" ", "a">>, <<"b", "U+00E9">> >>,
     p_scores |-> <<5, 9, 1>>, i_scores |-> <<6, 9, 10>>]

\* a text rule with threshold t
TextRule(t) ==
    [type |-> "text", threshold |-> t, p_short |-> 2, p_long |-> 9, i_short |-> 3,
     i_long |-> 10]

\* scoring_config blobs: valid radio tables and text rules, and blobs that
\* ParseScoringConfig refuses (bad lengths, a score of 11, a negative
\* threshold, unreadable JSON)
ScoringConfigs ==
    { RadioQ, RepeatedOptQ, EmptyOptQ, TextRule(0), TextRule(1), TextRule(2), TextQ,
      BadQ, [RadioQ EXCEPT !.p_scores = <<11, 2>>], TextRule(-1),
      [type |-> "malformed"] }

NoScoringCall ==
    [op |-> "", config |-> [type |-> "malformed"], answer |-> <<>>,
     ret |-> [err |-> FALSE, p |-> 0, i |-> 0]]

ScoreAnswerCall ==
    /\ \E rawConfig \in ScoringConfigs, answer \in Answers :
         caller' = [op |-> "ScoreAnswer", config |-> rawConfig, answer |-> answer,
                    ret |-> ScoreAnswer(rawConfig, answer)]
    /\ UNCHANGED <<db, runnerVars, events>>

\* the values a probability or an impact takes
ScoreGrid == 1..10

GetTierCall ==
    /\ \E p \in ScoreGrid, i \in ScoreGrid :
         caller' = [op |-> "GetTier", p |-> p, i |-> i, ret |-> GetTier(p, i)]
    /\ UNCHANGED <<db, runnerVars, events>>

\* rows handed to ComputeRisks in one call
MaxRows == 3

\* what a row can be, apart from its question: scored 72, scored 6 by a radio
\* table, scored 6 by a text rule, a context row, a row with a bad
\* configuration
RowKinds ==
    { [AnswerText |-> <<"a">>, ScoringConfig |-> RadioQ, IsScoring |-> TRUE],
      [AnswerText |-> <<"b">>, ScoringConfig |-> RadioQ, IsScoring |-> TRUE],
      [AnswerText |-> <<"a">>, ScoringConfig |-> TextRule(1), IsScoring |-> TRUE],
      [AnswerText |-> <<"a">>, ScoringConfig |-> RadioQ, IsScoring |-> FALSE],
      [AnswerText |-> <<"a">>, ScoringConfig |-> BadQ, IsScoring |-> TRUE] }

\* the answers of a session, in any order: at most one row per question
\* (answers has the primary key (session_id, question_id))
RowInputs ==
    UNION { { [k \in 1..n |-> AnswerRow(ids[k], kinds[k].AnswerText,
                                        kinds[k].ScoringConfig, kinds[k].IsScoring)] :
                ids \in {f \in [1..n -> 1..MaxRows] :
                            \A a, b \in 1..n : f[a] = f[b] => a = b},
                kinds \in [1..n -> RowKinds] } : n \in 0..MaxRows }

ComputeRisksCall ==
    /\ \E rows \in RowInputs :
         caller' = [op |-> "ComputeRisks", rows |-> rows, ret |-> ComputeRisks(rows)]
    /\ UNCHANGED <<db, runnerVars, events>>

\* risks handed to OverallScore in one call
MaxScores == 3

\* scores of the risks: the ends of 1..100 and values whose means fall on and
\* off a half
ScoreSamples == {1, 9, 10, 11, 30, 81, 100}

ScoreInputs ==
    UNION {[1..n -> {[Score |-> s] : s \in ScoreSamples}] : n \in 0..MaxScores}

OverallScoreCall ==
    /\ \E risks \in ScoreInputs :
         caller' = [op |-> "OverallScore", risks |-> risks, ret |-> OverallScore(risks)]
    /\ UNCHANGED <<db, runnerVars, events>>

ScoringInit ==
    /\ caller = NoScoringCall
    /\ db = NoSnap
    /\ queue = <<>>
    /\ worker = [w \in WorkerIds |-> IdleWorker]
    /\ scanner = [pc |-> "startup", pending |-> <<>>, ticks |-> 0]
    /\ hook = [pc |-> "idle", report |-> 0, deliveries |-> 0]
    /\ cancelled = FALSE
    /\ outbox = {}
    /\ commits = <<>>
    /\ start = "waiting"
    /\ events = <<>>

ScoringNext == ScoreAnswerCall \/ GetTierCall \/ ComputeRisksCall \/ OverallScoreCall

ScoringSpec == ScoringInit /\ [][ScoringNext]_vars

ReportIds == 1..Len(db.reports)

\* worker w is inside Job.Run for report r, between the first statement of
\* PersistScoredReport's transaction and its commit
InPersist(w, r) == worker[w].pc = "persist" /\ worker[w].reportID = r

\* worker w makes the step that ends runWithRetry after the last failed attempt
MarkFailedStep(w) == worker[w].pc = "markfail" /\ worker'[w].pc = "idle"

\* C1: once the committed status of a report is ready, no step of the Runner,
\* the Job or the Store moves it to another status.
ReadyIsTerminal ==
    [][\A r \in ReportIds :
          db.reports[r].status = "ready" => db'.reports[r].status = "ready"]_vars

\* C2 as stated: when the last of the MaxRetries attempts has failed and there
\* is no shutdown, the step that ends runWithRetry leaves the report in error
\* with the (non-empty) message of the last attempt's error.
ExhaustedRetriesAlwaysEndInError ==
    [][\A w \in WorkerIds :
          MarkFailedStep(w) /\ ~cancelled =>
              LET report == db'.reports[worker[w].reportID] IN
              /\ report.status = "error"
              /\ report.error_message = ErrorString(worker[w].lastErr)
              /\ report.error_message # ""]_vars

\* C2, amended: when the last of the MaxRetries attempts has failed and there
\* is no shutdown, the step that ends runWithRetry either leaves the database
\* as it was (the MarkReportFailed write failed) or changes nothing but this
\* report, which is then in error with the non-empty message of the last
\* attempt's error; and a recovery scan never lists a report that is in error.
ExhaustedRetriesEndInError ==
    [][/\ \A w \in WorkerIds :
            MarkFailedStep(w) /\ ~cancelled =>
                LET id == worker[w].reportID IN
                \/ db' = db
                \/ /\ db'.reports[id].status = "error"
                   /\ db'.reports[id].error_message = ErrorString(worker[w].lastErr)
                   /\ db'.reports[id].error_message # ""
                   /\ db' = SetReportError(db, id, db'.reports[id].error_message)
       /\ scanner.pc \in {"startup", "wait"} /\ scanner'.pc = "push" =>
            \A k \in 1..Len(scanner'.pending) :
                db.reports[scanner'.pending[k]].status # "error"]_vars

\* a report was marked failed with the message of a failed persist, and the
\* scanner has run a later tick
ExhaustedRetriesWitness ==
    \E r \in ReportIds :
        /\ db.reports[r].status = "error"
        /\ db.reports[r].error_message =
               "job: persist report: PersistScoredReport: finalize report: " \o ErrDB
        /\ scanner.ticks = MaxTicks
        /\ scanner.pc = "wait"
        /\ queue = <<>>

\* C3: once the committed status of a report is error, no step moves it to
\* another status.
ErrorIsTerminal ==
    [][\A r \in ReportIds :
          db.reports[r].status = "error" => db'.reports[r].status = "error"]_vars

\* C4: no two workers of the Runner are inside Job.Run for the same report at
\* the same time.
NoConcurrentAttempts ==
    \A w1, w2 \in WorkerIds, r \in ReportIds :
        InPersist(w1, r) /\ InPersist(w2, r) => w1 = w2

\* C5: for every report, at most one PersistScoredReport call commits.
AtMostOneCommit == \A r \in ReportIds : commits[r] <= 1

\* C6: a PersistScoredReport call that returns an error, whatever the step
\* that failed, leaves the committed database exactly as it was.
FailedPersistChangesNothing ==
    [][\A w \in WorkerIds :
          worker[w].pc = "persist" /\ worker'[w].pc \in {"backoff", "markfail"}
              => db' = db]_vars

\* a PersistScoredReport call failed at an AI-override update, after it had
\* set the report to processing and inserted its result rows
FailedPersistWitness ==
    \E w \in WorkerIds :
        /\ worker[w].pc \in {"backoff", "markfail"}
        /\ Is(worker[w].lastErr, "PersistScoredReport: set AI hedge")

\* ─── PROPERTIES OF THE STORE ──────────────────────────────────────────────

SessionIds == 1..Len(db.sessions)

ReportsOf(d, sessionID) == {k \in 1..Len(d.reports) : d.reports[k].session_id = sessionID}

\* caller c makes the step in which its call of op returns
Returns(c, op) ==
    caller[c].pc = "running" /\ caller[c].op = op /\ caller'[c].pc = "idle"

\* the last calls of c1 and c2 ran at the same time: one was in progress when
\* the other began
Overlapped(c1, c2) ==
    \/ <<c1, caller[c1].ret.n>> \in caller[c2].ret.with
    \/ <<c2, caller[c2].ret.n>> \in caller[c1].ret.with

\* C7: an InitialiseReport call for the intent reference of a session, made
\* after every earlier call has returned and not hit by a transient failure,
\* leaves exactly one report row for the session: it creates a draft report
\* when the session has none, and otherwise returns the already-exists
\* sentinel with the existing row and changes nothing.
SequentialInitialiseReport ==
    [][\A c \in CallerIds :
          LET owners == SessionsByPI(db, caller[c].arg.StripePaymentIntent)
              ret == caller'[c].ret
          IN /\ Returns(c, "InitialiseReport")
             /\ caller[c].snap = db
             /\ owners # {}
             /\ ~Is(ret.err, ErrDB)
             => LET s == Min(owners) IN
                /\ Cardinality(ReportsOf(db', s)) = 1
                /\ IF ReportsOf(db, s) = {}
                   THEN /\ ret.err = NoErr
                        /\ ret.report \in ReportsOf(db', s)
                        /\ db'.reports[ret.report] = DraftReport(s)
                   ELSE /\ ret.err = <<ErrReportAlreadyExists>>
                        /\ ret.report \in ReportsOf(db, s)
                        /\ db' = db]_vars

\* after the call that created the report of a session, two more calls with
\* the same intent reference, one after the other, returned the sentinel with
\* that row
SequentialInitialiseWitness ==
    \E r \in ReportIds :
        /\ db.reports[r].status = "draft"
        /\ \A c \in CallerIds :
             /\ caller[c].pc = "idle"
             /\ caller[c].ret.op = "InitialiseReport"
             /\ caller[c].ret.with = {}
             /\ caller[c].ret.err = <<ErrReportAlreadyExists>>
             /\ caller[c].ret.report = r

\* C8: in every committed state a paid session has a report row, and an
\* InitialiseReport call that returns an error leaves the sessions and the
\* reports as they were.
PaidSessionHasReport ==
    /\ [](\A s \in SessionIds :
             db.sessions[s].payment_status = "paid" => ReportsOf(db, s) # {})
    /\ [][\A c \in CallerIds :
             Returns(c, "InitialiseReport") /\ caller'[c].ret.err # NoErr
                 => db'.sessions = db.sessions /\ db'.reports = db.reports]_vars

\* an InitialiseReport call failed at the insert of the report, after the
\* paid-mark; a later call with the same intent reference succeeded, and the
\* session is paid and has its report
PaidSessionWitness ==
    \E c1, c2 \in CallerIds, s \in SessionIds :
        /\ caller[c1].ret.op = "InitialiseReport"
        /\ caller[c1].ret.err = Wrap("InitialiseReport: create report", <<ErrDB>>)
        /\ caller[c2].ret.op = "InitialiseReport"
        /\ caller[c2].ret.err = NoErr
        /\ caller[c2].ret.arg = caller[c1].ret.arg
        /\ db.sessions[s].stripe_payment_intent = caller[c1].ret.arg.StripePaymentIntent
        /\ db.sessions[s].payment_status = "paid"
        /\ ReportsOf(db, s) = {caller[c2].ret.report}

\* C9: in every committed state there is at most one report row per session.
OneReportPerSession ==
    \A s \in SessionIds : Cardinality(ReportsOf(db, s)) <= 1

\* two InitialiseReport calls for the same session ran at the same time: one
\* created the report, the other failed on the concurrent update
OneReportPerSessionWitness ==
    \E c1, c2 \in CallerIds, s \in SessionIds :
        /\ c1 # c2
        /\ Overlapped(c1, c2)
        /\ caller[c1].ret.op = "InitialiseReport"
        /\ caller[c2].ret.op = "InitialiseReport"
        /\ caller[c1].ret.arg = caller[c2].ret.arg
        /\ caller[c1].ret.err = NoErr
        /\ Is(caller[c2].ret.err, ErrSerialization)
        /\ ReportsOf(db, s) = {caller[c1].ret.report}

\* C10: of two AttachPaymentIntent calls for the same session that ran at the
\* same time with different intent references, when one succeeded the other
\* (unless a transient failure hit it) returned the already-attached sentinel
\* with the session row holding the first reference, which the session keeps.
ConcurrentAttachReturnsSentinel ==
    \A c1, c2 \in CallerIds :
        LET won == caller[c1].ret
            lost == caller[c2].ret
        IN /\ c1 # c2
           /\ Overlapped(c1, c2)
           /\ won.op = "AttachPaymentIntent"
           /\ lost.op = "AttachPaymentIntent"
           /\ won.arg.SessionID = lost.arg.SessionID
           /\ won.arg.StripePaymentIntent # lost.arg.StripePaymentIntent
           /\ won.err = NoErr
           /\ ~Is(lost.err, ErrDB)
           => /\ lost.err = <<ErrPaymentIntentAlreadyAttached>>
              /\ lost.session.stripe_payment_intent = won.arg.StripePaymentIntent
              /\ db.sessions[won.arg.SessionID].stripe_payment_intent =
                     won.arg.StripePaymentIntent

\* C11: a session's payment-intent reference is write-once: in every step, a
\* session whose stripe_payment_intent is non-empty keeps exactly that value,
\* whatever checkout request, AttachPaymentIntent call or webhook event ran.
PaymentIntentWriteOnce ==
    [][\A s \in SessionIds :
          db.sessions[s].stripe_payment_intent \notin {Null, ""}
          => db'.sessions[s].stripe_payment_intent =
                 db.sessions[s].stripe_payment_intent]_vars

\* a checkout request that created a new PaymentIntent for a session that had
\* one attached: the call returned the sentinel and the first reference stays
PaymentIntentWriteOnceWitness ==
    \E c \in CallerIds :
        LET r == caller[c].ret IN
        /\ r.op = "AttachPaymentIntent"
        /\ r.err = <<ErrPaymentIntentAlreadyAttached>>
        /\ db.sessions[r.arg.SessionID].stripe_payment_intent \notin {Null, ""}
        /\ db.sessions[r.arg.SessionID].stripe_payment_intent # r.arg.StripePaymentIntent
        /\ r.session.stripe_payment_intent =
               db.sessions[r.arg.SessionID].stripe_payment_intent

\* ─── PROPERTIES OF ENQUEUE ────────────────────────────────────────────────

\* C12: Enqueue never blocks (a call can always return), below capacity it
\* appends the identifier at the tail and returns no error, and on a full
\* queue it returns an error and leaves the queue as it was.  (A step that
\* does not shorten the queue is a call of Enqueue; caller' is what it returned.)
EnqueueNeverBlocks ==
    /\ [](ENABLED EnqueueCall)
    /\ [][Len(queue') >= Len(queue)
          => IF Len(queue) < QueueCap
             THEN /\ queue' = Append(queue, caller'.reportID)
                  /\ caller'.err = NoErr
             ELSE /\ queue' = queue
                  /\ caller'.err # NoErr]_vars

\* a call was rejected on a full queue
EnqueueRejectedWitness ==
    /\ caller.op = "Enqueue"
    /\ caller.err # NoErr
    /\ Len(queue) = QueueCap

\* ─── PROPERTIES OF THE RUNNER LEFT RUNNING ────────────────────────────────

\* report r is in the hands of a worker
Taken(r) == \E w \in WorkerIds : worker[w].reportID = r

ScanEnqueuesOnlyPending ==
    [][scanner.pc = "push" /\ scanner' # scanner
       => IF Len(queue) < QueueCap
          THEN /\ queue' = Append(queue, Head(scanner.pending))
               /\ db.reports[Head(scanner.pending)].status \in {"draft", "processing"}
          ELSE queue' = queue]_vars

\* C15: for each identifier a worker takes, runWithRetry numbers its attempts
\* 1, 2, ... up to MaxRetries; an attempt begins only when the identifier is
\* taken (attempt 1) or when the back-off after the failed attempt before it
\* has elapsed; a successful attempt ends the work on the identifier; and
\* MarkReportFailed is reached only from the failure of attempt MaxRetries.
RetriesAreBounded ==
    /\ [](\A w \in WorkerIds :
            /\ worker[w].attempt <= MaxRetries
            /\ worker[w].pc = "markfail"
               => worker[w].attempt = MaxRetries /\ worker[w].lastErr # NoErr)
    /\ [][\A w \in WorkerIds :
            LET old == worker[w]
                new == worker'[w]
            IN /\ new.pc = "attempt" /\ new # old
                  => \/ old.pc = "idle" /\ new.attempt = 1
                     \/ /\ old.pc = "backoff"
                        /\ old.lastErr # NoErr
                        /\ new.attempt = old.attempt + 1
                        /\ new.reportID = old.reportID
               /\ old.pc \in {"attempt", "persist"} /\ new.pc \in {"backoff", "markfail"}
                  => /\ new.lastErr # NoErr
                     /\ new.attempt = old.attempt
                     /\ new.pc = "markfail" <=> old.attempt = MaxRetries
               /\ old.pc = "persist" /\ new.pc = "idle"
                  => /\ new = IdleWorker
                     /\ db'.reports[old.reportID].status = "ready"]_vars

\* the last attempt has failed and MarkReportFailed is about to be called
RetriesExhaustedWitness ==
    \E w \in WorkerIds :
        /\ worker[w].pc = "markfail"
        /\ worker[w].attempt = MaxRetries
        /\ MaxRetries > 1
        /\ ~cancelled

\* C16: when the last attempt has failed because the root context was
\* already cancelled, the MarkReportFailed call that follows can still write:
\* a return of the call that leaves the report recorded as error is possible.
MarkFailedSurvivesShutdown ==
    \A w \in WorkerIds :
        worker[w].pc = "markfail" /\ cancelled /\ Is(worker[w].lastErr, ErrCanceled)
        => ENABLED (/\ MarkFailed(w)
                    /\ db' # db
                    /\ db'.reports[worker[w].reportID].status = "error")

\* C17: Start has not returned while a worker or the scanner is still
\* running, and once the root context is cancelled Start eventually returns:
\* every worker and the scanner exits, whatever it was waiting on.
StartReturnsAfterAll ==
    /\ [](start = "returned"
          => /\ \A w \in WorkerIds : worker[w].pc = "stopped"
             /\ scanner.pc = "stopped")
    /\ cancelled ~> start = "returned"

\* Start has returned after a cancellation that found work in progress
StartReturnedWitness ==
    /\ start = "returned"
    /\ cancelled
    /\ \A w \in WorkerIds : worker[w].pc = "stopped"
    /\ scanner.pc = "stopped"
    /\ db.reports[1].status = "draft"
    /\ queue # <<>>

\* C18: once the root context is cancelled, no worker takes an identifier
\* from the queue any more, whether or not the queue is empty.
NoDequeueAfterCancel ==
    [][cancelled
       => \A w \in WorkerIds :
            ~(worker[w].pc = "idle" /\ worker'[w].pc = "attempt")]_vars

\* C19: when the root context is cancelled while a worker waits in the
\* back-off between two attempts, the next step of that worker is the return
\* of runWithRetry: no further attempt, no MarkReportFailed, and the database
\* (so the report's status) is as it was.
CancelledBackoffReturns ==
    [][\A w \in WorkerIds :
          worker[w].pc = "backoff" /\ cancelled /\ worker'[w] # worker[w]
          => /\ worker'[w] = IdleWorker
             /\ db' = db]_vars

\* the cancellation came during the back-off: the attempt before it had
\* failed for another reason
CancelledBackoffWitness ==
    \E w \in WorkerIds :
        /\ worker[w].pc = "backoff"
        /\ cancelled
        /\ ~Is(worker[w].lastErr, ErrCanceled)

\* C20: a run of Job.Run returns nil exactly when PersistScoredReport
\* committed in it: a run that returns nil has just committed the report as
\* ready, a run that fails while loading, scoring or persisting returns its
\* error and has changed nothing, and no run returns nil before persisting;
\* whether the email went out plays no part.
JobSucceedsIffPersisted ==
    [][\A w \in WorkerIds :
          LET old == worker[w]
              new == worker'[w]
              id == old.reportID
          IN /\ old.pc = "persist" /\ new.pc = "idle"
                => /\ db'.reports[id].status = "ready"
                   /\ db'.reports[id].version > db.reports[id].version
                   /\ db'.reports[id].version > old.snap.reports[id].version
             /\ old.pc \in {"attempt", "persist"} /\ new.pc \in {"backoff", "markfail"}
                => /\ new.lastErr # NoErr
                   /\ db' = db
             /\ old.pc = "attempt" /\ new # old
                => new.pc \in {"persist", "backoff", "markfail"}]_vars

\* the only run there has been committed the report and returned nil, and no
\* email went out
JobSucceededWithoutMailWitness ==
    /\ commits[1] = 1
    /\ db.reports[1].status = "ready"
    /\ outbox = {}
    /\ \A w \in WorkerIds : worker[w].pc = "idle"
    /\ queue = <<>>
    /\ scanner.pc = "wait"
    /\ scanner.ticks = 0
    /\ hook.deliveries = 0

\* ─── PROPERTIES OF JOB.RUN ────────────────────────────────────────────────

\* C21: when the hedging client is called and returns an error, Job.Run
\* still calls PersistScoredReport, with every scored risk and with no AI
\* overrides, no executive summary and no top-priority fragment, and the run
\* returns nil exactly when PersistScoredReport does.
HedgeFailureIsNotFatal ==
    caller.op = "Job.Run" /\ caller.hedgerCalled /\ caller.hedge.err
    => /\ caller.persistCalled
       /\ caller.params.Risks = ComputeRisks(db.answers[db.reports[1].session_id]).risks
       /\ caller.params.Risks # <<>>
       /\ DOMAIN caller.params.AIHedges = {}
       /\ caller.params.ExecutiveSummary = ""
       /\ caller.params.TopPriorityHTML = ""
       /\ caller.err = NoErr <=> caller.persistErr = NoErr

\* a run whose hedging call failed after producing part of a result, and
\* which committed the report and returned nil
HedgeFailureWitness ==
    /\ caller.op = "Job.Run"
    /\ caller.hedgerCalled
    /\ caller.hedge.err
    /\ caller.hedge.ExecutiveSummary # ""
    /\ caller.err = NoErr
    /\ db.reports[1].status = "ready"
    /\ db.reports[1].executive_summary \in {Null, ""}

\* the session of report r has no answers, or one of its scoring rows has a
\* scoring configuration that does not parse
Unscorable(r) ==
    LET rows == db.answers[db.reports[r].session_id] IN
    Len(rows) = 0 \/ ComputeRisks(rows).err

\* what C22 says of every state: no run on an unscorable report gets as far
\* as PersistScoredReport or the mailer, and the report is never ready
UnscorableNeverPersists ==
    \A r \in 1..NumReports :
        Unscorable(r)
        => /\ \A w \in WorkerIds : ~InPersist(w, r)
           /\ commits[r] = 0
           /\ \A m \in outbox : m.AccessToken # AccessToken(r)
           /\ \A k \in 1..Len(db.results) : db.results[k].report_id # r
           /\ db.reports[r].status \in {"draft", "error"}

\* what C22 says of every attempt: it returns an error and changes nothing
UnscorableAttemptFails(w) ==
    worker[w].pc = "attempt" /\ worker'[w] # worker[w] /\ Unscorable(worker[w].reportID)
    => /\ worker'[w].pc \in {"backoff", "markfail"}
       /\ worker'[w].lastErr # NoErr
       /\ db' = db

\* C22: when the session of a report has no answers or a scoring row has an
\* invalid configuration, every attempt of Job.Run returns an error without
\* reaching the hedging client, PersistScoredReport or the mailer and leaves
\* the report as it is, and the step that follows the last attempt leaves the
\* report in error.
UnscorableAlwaysEndsInError ==
    /\ []UnscorableNeverPersists
    /\ [][\A w \in WorkerIds :
            /\ UnscorableAttemptFails(w)
            /\ MarkFailedStep(w) /\ Unscorable(worker[w].reportID)
               => db'.reports[worker[w].reportID].status = "error"]_vars

\* C22, amended: as C22, but the step that follows the last attempt calls
\* MarkReportFailed, which leaves the report in error when its write
\* succeeds and leaves the database as it was when it fails.
UnscorableEndsInError ==
    /\ []UnscorableNeverPersists
    /\ [][\A w \in WorkerIds :
            /\ UnscorableAttemptFails(w)
            /\ MarkFailedStep(w) /\ Unscorable(worker[w].reportID)
               => \/ db' = db
                  \/ /\ db'.reports[worker[w].reportID].status = "error"
                     /\ db' = SetReportError(db, worker[w].reportID,
                                             ErrorString(worker[w].lastErr))]_vars

\* a report without answers was marked failed after its last attempt
UnscorableWitness ==
    /\ Unscorable(1)
    /\ db.reports[1].status = "error"
    /\ db.reports[1].error_message = "job: no answers found for session"
    /\ \A w \in WorkerIds : worker[w].pc = "idle"

\* ─── PROPERTIES OF THE HEDGING CLIENT ─────────────────────────────────────

\* C23: for a non-empty risk set: a primary that succeeds is called once, its
\* result is returned and the secondary is not called; when the primary fails
\* and a secondary is configured, the secondary is called exactly once and
\* what it returns is returned; when the primary fails and there is no
\* secondary, the error returned has the primary's error as its cause; when
\* there is no primary, the secondary (if configured) is called exactly once.
FallbackProtocol ==
    LET c == caller
    IN c.op = "GenerateHedges" /\ Len(c.risks) > 0
       => /\ c.primary.kind # "nil" /\ c.primary.err = NoErr
             => /\ c.ret.result = c.primary.result
                /\ c.ret.err = NoErr
                /\ c.ret.primaryCalls = 1
                /\ c.ret.secondaryCalls = 0
          /\ c.primary.kind # "nil" /\ c.primary.err # NoErr /\ c.secondary.kind # "nil"
             => /\ c.ret.result = c.secondary.result
                /\ c.ret.err = c.secondary.err
                /\ c.ret.primaryCalls = 1
                /\ c.ret.secondaryCalls = 1
          /\ c.primary.kind # "nil" /\ c.primary.err # NoErr /\ c.secondary.kind = "nil"
             => /\ c.ret.err # NoErr
                /\ \A k \in 1..Len(c.primary.err) : Is(c.ret.err, c.primary.err[k])
                /\ c.ret.secondaryCalls = 0
                /\ ~c.ret.panic
          /\ c.primary.kind = "nil" /\ c.secondary.kind # "nil"
             => /\ c.ret.result = c.secondary.result
                /\ c.ret.err = c.secondary.err
                /\ c.ret.primaryCalls = 0
                /\ c.ret.secondaryCalls = 1

\* the primary failed and the secondary's result was returned
FallbackUsedWitness ==
    /\ caller.op = "GenerateHedges"
    /\ Len(caller.risks) > 0
    /\ caller.primary.err # NoErr
    /\ caller.ret.err = NoErr
    /\ caller.ret.secondaryCalls = 1
    /\ caller.ret.result.ExecutiveSummary = "summary"

\* C24: for an empty risk set the fallback hedger returns the empty result
\* and no error, and calls neither the primary nor the secondary.
EmptyRisksShortCircuit ==
    caller.op = "GenerateHedges" /\ Len(caller.risks) = 0
    => /\ caller.ret.result = EmptyResult
       /\ caller.ret.err = NoErr
       /\ caller.ret.primaryCalls = 0
       /\ caller.ret.secondaryCalls = 0
       /\ ~caller.ret.panic

\* ─── PROPERTIES OF THE WEBHOOK HANDLER (WebhookSpec) ──────────────────────

\* the step of connection c that serves a delivery of a verified event whose
\* identifier is in stripe_events when the delivery arrives
DuplicateDelivery(c) ==
    /\ caller[c].pc = "idle"
    /\ caller'[c].calls = caller[c].calls + 1
    /\ caller'[c].event # NoEvent
    /\ caller'[c].event.ID \in DOMAIN events

\* C25: a delivery whose event identifier is already recorded is answered
\* with 200 and has no other effect: after the upsert it calls nothing (no
\* InitialiseReport, no Enqueue, no SendReceipt), and the database, the
\* queue, the mails and the recorded event stay as they were.  The upsert
\* reports the known identifier as zero rows; a statement hit by a transient
\* database failure is answered with 500, with no other effect either.
DuplicateHasNoEffect ==
    [][\A c \in CallerIds : DuplicateDelivery(c) =>
          /\ caller'[c].pc = "idle"
          /\ caller'[c].trace = <<"VerifyWebhook", "UpsertStripeEvent">>
          /\ UNCHANGED <<db, queue, outbox, events>>
          /\ IF Is(caller'[c].upsertErr, ErrDB) THEN caller'[c].status = 500
             ELSE caller'[c].upsertErr = <<ErrNoRows>> /\ caller'[c].status = 200]_vars

\* a second delivery of a payment_intent.succeeded event was answered with
\* 200 on the zero-rows answer of the upsert, the event recorded and processed
DuplicateWitness ==
    \E c \in CallerIds :
        /\ caller[c].pc = "idle"
        /\ caller[c].event.Type = "payment_intent.succeeded"
        /\ Is(caller[c].upsertErr, ErrNoRows)
        /\ caller[c].status = 200
        /\ caller[c].event.ID \in DOMAIN events
        /\ events[caller[c].event.ID].processed
        /\ Len(db.reports) = 1

\* ─── PROPERTIES OF THE REPORT ACCESS (AccessSpec) ─────────────────────────

\* the step in which handleGetReport answers
Answered == caller' # caller /\ caller'.pc = "idle"

\* the result rows of a report, as indices of the table
RowsOf(d, reportID) == {k \in 1..Len(d.results) : d.results[k].report_id = reportID}

\* C26: handleGetReport answers 200 only for a report it read as ready, with
\* all result rows of the report in rank order; every other answer carries no
\* rows.  For a report it read as draft, processing or error it answers 202
\* with the status and the poll-again message only, and for a token of no
\* report it answers 404 (a query hit by a transient failure is answered 500).
ReportAccessContract ==
    [][Answered =>
         LET resp == caller'.resp
             id == GetReportByAccessToken(db, caller'.token)
         IN /\ resp.code = 200 =>
                 /\ caller'.row.status = "ready"
                 /\ id # 0 /\ resp.body.ReportID = id
                 /\ Len(resp.body.Risks) = Cardinality(RowsOf(db, id))
                 /\ \A k \in RowsOf(db, id) : \E n \in 1..Len(resp.body.Risks) :
                        /\ resp.body.Risks[n].QuestionID = db.results[k].question_id
                        /\ resp.body.Risks[n].Rank = db.results[k].rank
                 /\ \A n \in 1..(Len(resp.body.Risks) - 1) :
                        resp.body.Risks[n].Rank <= resp.body.Risks[n + 1].Rank
            /\ resp.code # 200 => "Risks" \notin DOMAIN resp.body
            /\ caller'.token # <<>> /\ ~caller'.failed =>
                 IF id = 0 THEN resp.code = 404
                 ELSE IF caller'.row.status \in {"draft", "processing", "error"}
                 THEN /\ resp.code = 202
                      /\ DOMAIN resp.body = {"status", "message"}
                      /\ resp.body.status = caller'.row.status
                 ELSE resp.code = 200]_vars

\* the client got a ready report with more than one risk
ReadyReportWitness ==
    /\ caller.pc = "idle"
    /\ caller.resp.code = 200
    /\ Len(caller.resp.body.Risks) > 1

\* ─── PROPERTIES OF THE COMMITTED REPORT (Spec) ────────────────────────────

\* the scorer's output for the answers of the session of report r
ScoredRisks(r) == ComputeRisks(db.answers[db.reports[r].session_id]).risks

\* the sum of the score column over the rows S of risk_results
RECURSIVE SumRowScores(_)
SumRowScores(S) ==
    IF S = {} THEN 0
    ELSE LET k == Min(S) IN db.results[k].score + SumRowScores(S \ {k})

\* C27: for every report whose committed status is ready there is exactly
\* one result row per scored risk, with the scorer's rank; critical_count is
\* the number of those rows with tier watch; overall_score is the mean of
\* their scores rounded half-up, 0 without rows; generated_at is set.
ReadyReportMatchesScoring ==
    \A r \in ReportIds : db.reports[r].status = "ready" =>
        LET risks == ScoredRisks(r)
            rows == RowsOf(db, r)
            n == Cardinality(rows)
        IN /\ n = Len(risks)
           /\ \A k \in 1..Len(risks) :
                \E j \in rows :
                    /\ db.results[j].question_id = risks[k].QuestionID
                    /\ db.results[j].rank = risks[k].Rank
                    /\ db.results[j].rank = k
                    /\ \A i \in rows :
                         db.results[i].question_id = risks[k].QuestionID => i = j
           /\ db.reports[r].critical_count
                 = Int16(Cardinality({j \in rows : db.results[j].tier = TierWatch}))
           /\ db.reports[r].overall_score
                 = Int16(IF n = 0 THEN 0
                         ELSE (2 * SumRowScores(rows) + n) \div (2 * n))
           /\ db.reports[r].generated_at # Null

\* a report is ready with two result rows, one of them of tier watch, and a
\* mean score that is not an integer
ReadyReportRowsWitness ==
    \E r \in ReportIds :
        /\ db.reports[r].status = "ready"
        /\ Cardinality(RowsOf(db, r)) = 2
        /\ \E j \in RowsOf(db, r) : db.results[j].tier = TierWatch
        /\ SumRowScores(RowsOf(db, r)) % 2 = 1

\* ─── PROPERTIES OF THE AI OVERRIDES (JobSpec) ─────────────────────────────

\* the step of a run that called PersistScoredReport
PersistCalled ==
    /\ caller'.runs = caller.runs + 1
    /\ caller'.persistCalled

\* C28: after a PersistScoredReport call that commits, a result row of the
\* report carries the AI text of its question when the AI map has a
\* non-empty text for it, and no AI override otherwise; the static hedge of
\* every row is the scorer's.  An identifier of the map that is not in the
\* scored set does not abort the write: on a report without rows the call
\* fails only when a statement fails.
AIOverridesExactlyFromMap ==
    [][PersistCalled =>
         LET p == caller'.params
             rows == RowsOf(db', p.ReportID)
         IN /\ caller'.persistErr = NoErr =>
                 \A j \in rows :
                    LET q == db'.results[j].question_id IN
                    /\ db'.results[j].ai_hedge =
                          IF q \in DOMAIN p.AIHedges /\ p.AIHedges[q] # ""
                          THEN p.AIHedges[q] ELSE Null
                    /\ \E k \in 1..Len(p.Risks) :
                          /\ p.Risks[k].QuestionID = q
                          /\ db'.results[j].hedge = p.Risks[k].Hedge
            /\ RowsOf(db, p.ReportID) = {} =>
                 /\ PersistScoredReport(db, db, p, NoFault).err = NoErr
                 /\ caller'.persistErr # NoErr => Is(caller'.persistErr, ErrDB)]_vars

\* a commit with an AI map that has an empty text for one scored question, a
\* text for another and a text for a question that was not scored: one row
\* has the override, the other has none
PartialAIMapWitness ==
    /\ caller.persistCalled
    /\ caller.persistErr = NoErr
    /\ DOMAIN caller.params.AIHedges = {1, 2, 9}
    /\ db.reports[1].status = "ready"
    /\ \E j, k \in RowsOf(db, 1) :
          /\ db.results[j].question_id = 1 /\ db.results[j].ai_hedge = Null
          /\ db.results[k].question_id = 2 /\ db.results[k].ai_hedge = "ai hedge 2"

\* ─── PROPERTIES OF THE SCORING FUNCTIONS (ScoringSpec) ────────────────────

\* t is s without its leading and trailing white space
IsTrimOf(t, s) ==
    \E i \in 1..(Len(s) + 1), j \in 0..Len(s) :
        /\ t = SubSeq(s, i, j)
        /\ \A k \in 1..(i - 1) : IsSpace(s[k])
        /\ \A k \in (j + 1)..Len(s) : IsSpace(s[k])
        /\ t # <<>> => ~IsSpace(t[1]) /\ ~IsSpace(t[Len(t)])

\* the last call was ScoreAnswer with a valid configuration of the type
ScoredWith(type) ==
    /\ caller.op = "ScoreAnswer"
    /\ caller.config.type = type
    /\ ParseScoringConfig(caller.config)

\* C29: for a valid radio configuration ScoreAnswer returns no error and the
\* pair at the index of the first option equal to the trimmed answer, and
\* (1,1) when no option equals the trimmed answer.
RadioScoresFirstMatch ==
    ScoredWith("radio") =>
        \E t \in Answers :
            /\ IsTrimOf(t, caller.answer)
            /\ LET c == caller.config
                   matches == {k \in 1..Len(c.opts) : c.opts[k] = t}
               IN /\ ~caller.ret.err
                  /\ IF matches = {}
                     THEN caller.ret.p = 1 /\ caller.ret.i = 1
                     ELSE /\ caller.ret.p = c.p_scores[Min(matches)]
                          /\ caller.ret.i = c.i_scores[Min(matches)]

\* an answer with white space around it matched the first of two equal
\* options
RadioFirstMatchWitness ==
    /\ ScoredWith("radio")
    /\ caller.config = RepeatedOptQ
    /\ caller.answer = <<" ", "a", "\t">>
    /\ caller.ret = [err |-> FALSE, p |-> 3, i |-> 4]

\* C30: for a valid text configuration with threshold T ScoreAnswer returns
\* the short pair when the trimmed answer has at most T bytes, the empty
\* answer included, and the long pair when it has T+1 bytes or more.
TextScoresByThreshold ==
    ScoredWith("text") =>
        \E t \in Answers :
            /\ IsTrimOf(t, caller.answer)
            /\ LET c == caller.config IN
               /\ ~caller.ret.err
               /\ ByteLen(t) <= c.threshold =>
                     caller.ret.p = c.p_short /\ caller.ret.i = c.i_short
               /\ ByteLen(t) >= c.threshold + 1 =>
                     caller.ret.p = c.p_long /\ caller.ret.i = c.i_long

\* an answer whose trimmed length is exactly the threshold scored short
TextBoundaryWitness ==
    /\ ScoredWith("text")
    /\ caller.config = TextRule(2)
    /\ caller.answer = <<" ", "a", "b">>
    /\ caller.ret = [err |-> FALSE, p |-> 2, i |-> 3]

\* C31: GetTier maps every (p,i) of the grid 1..10 x 1..10 to one of the four
\* tiers: watch iff p>=6 and i>=7, red iff p<6 and i>=7, manage iff p>=6 and
\* i<7, ignore iff p<6 and i<7; the four conditions exclude one another and
\* cover the grid.
GetTierPartitionsGrid ==
    caller.op = "GetTier" =>
        LET p == caller.p
            i == caller.i
        IN /\ caller.ret \in {TierWatch, TierRed, TierManage, TierIgnore}
           /\ caller.ret = TierWatch <=> (p >= 6 /\ i >= 7)
           /\ caller.ret = TierRed <=> (p < 6 /\ i >= 7)
           /\ caller.ret = TierManage <=> (p >= 6 /\ i < 7)
           /\ caller.ret = TierIgnore <=> (p < 6 /\ i < 7)
           /\ (IF p >= 6 /\ i >= 7 THEN 1 ELSE 0) + (IF p < 6 /\ i >= 7 THEN 1 ELSE 0)
                + (IF p >= 6 /\ i < 7 THEN 1 ELSE 0) + (IF p < 6 /\ i < 7 THEN 1 ELSE 0)
                = 1

\* the corner of the watch tier: probability 6, impact 7
GetTierWitness ==
    /\ caller.op = "GetTier"
    /\ caller.p = 6 /\ caller.i = 7
    /\ caller.ret = TierWatch

\* the rows of the last ComputeRisks call all have a configuration that
\* ParseScoringConfig accepts
ComputedOnValidRows ==
    /\ caller.op = "ComputeRisks"
    /\ \A k \in 1..Len(caller.rows) : ParseScoringConfig(caller.rows[k].ScoringConfig)

\* C32: for rows with valid configurations ComputeRisks returns no error and
\* exactly one entry per scoring row, none for the other rows; the entries
\* are in descending order of score (probability x impact), equal scores in
\* ascending order of question identifier; the entry at position k has rank k.
ComputeRisksRanksScoringRows ==
    ComputedOnValidRows =>
        LET rows == caller.rows
            risks == caller.ret.risks
            scoring == {k \in 1..Len(rows) : rows[k].IsScoring}
        IN /\ ~caller.ret.err
           /\ Len(risks) = Cardinality(scoring)
           /\ \A k \in scoring :
                Cardinality({n \in 1..Len(risks) :
                                risks[n].QuestionID = rows[k].QuestionID}) = 1
           /\ \A n \in 1..Len(risks) :
                /\ \E k \in scoring : rows[k].QuestionID = risks[n].QuestionID
                /\ risks[n].Score = risks[n].P * risks[n].I
                /\ risks[n].Rank = n
           /\ \A n \in 1..(Len(risks) - 1) :
                \/ risks[n].Score > risks[n + 1].Score
                \/ /\ risks[n].Score = risks[n + 1].Score
                   /\ risks[n].QuestionID < risks[n + 1].QuestionID

\* three rows given in descending order of question: a context row, and two
\* rows of equal score that come out in ascending order of question
ComputeRisksWitness ==
    /\ ComputedOnValidRows
    /\ Len(caller.rows) = 3
    /\ caller.rows[1].QuestionID = 3 /\ caller.rows[1].IsScoring
    /\ caller.rows[2].QuestionID = 2 /\ ~caller.rows[2].IsScoring
    /\ caller.rows[3].QuestionID = 1 /\ caller.rows[3].IsScoring
    /\ Len(caller.ret.risks) = 2
    /\ caller.ret.risks[1].Score = caller.ret.risks[2].Score
    /\ caller.ret.risks[1].QuestionID = 1

\* the sum of the scores handed to the last OverallScore call
RECURSIVE SumOfInput(_)
SumOfInput(n) == IF n = 0 THEN 0 ELSE caller.risks[n].Score + SumOfInput(n - 1)

\* C33: OverallScore returns 0 for no scores and otherwise the mean rounded
\* half-up, floor((2*sum + n) / (2*n)): the integer r with
\* r - 1/2 <= sum/n < r + 1/2.  For scores in 1..100 it lies in 1..100.
OverallScoreIsHalfUpMean ==
    caller.op = "OverallScore" =>
        LET n == Len(caller.risks)
            sum == SumOfInput(n)
            r == caller.ret
        IN IF n = 0 THEN r = 0
           ELSE /\ r = (2 * sum + n) \div (2 * n)
                /\ 2 * n * r - n <= 2 * sum
                /\ 2 * sum < 2 * n * r + n
                /\ r \in 1..100

\* the mean of 10 and 11 is 10.5 and comes out as 11
OverallScoreWitness ==
    /\ caller.op = "OverallScore"
    /\ caller.risks = <<[Score |-> 10], [Score |-> 11]>>
    /\ caller.ret = 11

\* ─── MORE PROPERTIES OF THE WEBHOOK HANDLER (WebhookSpec) ─────────────────

\* the step of connection c that serves a delivery of a payment-succeeded
\* event whose earlier handling failed in InitialiseReport: the event is
\* recorded with the error, and this upsert is not hit by a failure
RedeliveryAfterFailure(c) ==
    /\ caller[c].pc = "idle"
    /\ caller'[c].calls = caller[c].calls + 1
    /\ caller'[c].event.Type = "payment_intent.succeeded"
    /\ caller'[c].event.PI # ""
    /\ caller'[c].event.ID \in DOMAIN events
    /\ events[caller'[c].event.ID].error # Null
    /\ ~Is(caller'[c].upsertErr, ErrDB)

\* C34: when the handling of a payment-succeeded event failed in
\* InitialiseReport and was answered with a failure, the next delivery of the
\* event is not skipped as a duplicate: it goes on to the dispatch, which runs
\* InitialiseReport again.
FailedEventIsRetried ==
    [][\A c \in CallerIds : RedeliveryAfterFailure(c) => caller'[c].pc = "dispatch"]_vars

\* ─── PROPERTIES OF THE DELIVERY EMAIL (JobSpec) ───────────────────────────

\* the messages handed to SendReportReady and accepted during this step
NewMails == outbox' \ outbox

\* C35: SendReportReady is called by a run of Job.Run only after the
\* PersistScoredReport of that run has committed the report as ready and only
\* when the session has a non-empty contact email; a run hands the mailer at
\* most one message, addressed to that email and carrying the access token
\* of the committed report.
ReportReadyOnlyAfterCommit ==
    [][caller'.runs = caller.runs + 1 =>
         LET id == 1
             session == db'.sessions[db'.reports[id].session_id]
         IN /\ caller'.mailerCalled =>
                   /\ caller'.persistCalled
                   /\ caller'.persistErr = NoErr
                   /\ caller'.err = NoErr
                   /\ db'.reports[id].status = "ready"
                   /\ session.email \notin {Null, ""}
            /\ ~caller'.mailerCalled => NewMails = {}
            /\ Cardinality(NewMails) <= 1
            /\ \A m \in NewMails :
                   /\ m.To = session.email
                   /\ m.AccessToken = AccessToken(id)
                   /\ GetReportByAccessToken(db', m.AccessToken) = id]_vars

\* a run committed the report and its message was accepted by the mailer;
\* the outbox holds exactly that message
ReportReadyWitness ==
    /\ caller.op = "Job.Run"
    /\ caller.mailerCalled
    /\ db.reports[1].status = "ready"
    /\ outbox = {[To |-> "user@example.com", AccessToken |-> AccessToken(1)]}

\* a run committed the report of a session without a contact email and
\* called no mailer
NoEmailWitness ==
    /\ caller.op = "Job.Run"
    /\ caller.persistErr = NoErr /\ caller.persistCalled
    /\ db.reports[1].status = "ready"
    /\ db.sessions[1].email \in {Null, ""}
    /\ ~caller.mailerCalled
    /\ outbox = {}

\* ─── PROPERTIES OF THE PAYMENT-SUCCEEDED HANDLER (PaymentSpec) ────────────

\* how often the handler made the call
CallsOf(name) == Cardinality({k \in 1..Len(caller'.trace) : caller'.trace[k] = name})

\* what one non-blocking send of id does to the queue
SentOnce(id) ==
    queue' = IF Len(queue) < QueueCap THEN Append(queue, id) ELSE queue

\* C36: when InitialiseReport returns the already-exists sentinel,
\* onPaymentSucceeded returns nil, sends no receipt, and calls Enqueue for the
\* existing report if and only if its status is neither ready nor error; when
\* InitialiseReport creates a report the handler calls Enqueue for it exactly
\* once; and the handler returns nil also when the queue is full and the send
\* is dropped.
SentinelIsSuccess ==
    [][caller'.calls = caller.calls + 1 =>
         /\ Is(caller'.initErr, ErrReportAlreadyExists) =>
                /\ caller'.err = NoErr
                /\ CallsOf("SendReceipt") = 0
                /\ outbox' = outbox
                /\ db'.reports = db.reports
                /\ CallsOf("Enqueue") =
                       (IF db.reports[caller'.report].status \notin {"ready", "error"}
                        THEN 1 ELSE 0)
                /\ IF db.reports[caller'.report].status \notin {"ready", "error"}
                   THEN SentOnce(caller'.report)
                   ELSE queue' = queue
         /\ caller'.initErr = NoErr =>
                /\ Len(db'.reports) = Len(db.reports) + 1
                /\ caller'.report = Len(db'.reports)
                /\ caller'.err = NoErr
                /\ CallsOf("Enqueue") = 1
                /\ SentOnce(caller'.report)
         /\ (caller'.initErr # NoErr /\ ~Is(caller'.initErr, ErrReportAlreadyExists)) =>
                /\ caller'.err # NoErr
                /\ queue' = queue
                /\ outbox' = outbox]_vars

\* a second succeeded event for a payment whose report is already ready:
\* the handler returned nil and sent nothing to the queue
SentinelOnReadyWitness ==
    /\ caller.op = "onPaymentSucceeded"
    /\ Is(caller.initErr, ErrReportAlreadyExists)
    /\ caller.before = "ready"
    /\ caller.err = NoErr
    /\ caller.trace = <<"InitialiseReport">>

\* the same for a report in error
SentinelOnErrorWitness ==
    /\ caller.op = "onPaymentSucceeded"
    /\ Is(caller.initErr, ErrReportAlreadyExists)
    /\ caller.before = "error"
    /\ caller.err = NoErr
    /\ caller.trace = <<"InitialiseReport">>

\* the same for a draft report, which was sent to the queue again
SentinelOnDraftWitness ==
    /\ caller.op = "onPaymentSucceeded"
    /\ Is(caller.initErr, ErrReportAlreadyExists)
    /\ caller.before = "draft"
    /\ ~caller.full
    /\ caller.err = NoErr
    /\ caller.trace = <<"InitialiseReport", "Enqueue">>
    /\ queue # <<>> /\ queue[Len(queue)] = caller.report

\* a report was created while the queue was full: the send was dropped and
\* the handler returned nil
RejectedEnqueueWitness ==
    /\ caller.op = "onPaymentSucceeded"
    /\ caller.initErr = NoErr
    /\ caller.full
    /\ caller.err = NoErr
    /\ Len(queue) = QueueCap
    /\ \A k \in 1..Len(queue) : queue[k] # caller.report
    /\ db.reports[caller.report].status = "draft"

\* ─── PROPERTIES OF THE COMMITTED STATUS (Spec) ────────────────────────────

\* C37: no committed state shows a report in status processing: the
\* committed status of a report is always draft, ready or error.
NeverCommittedProcessing ==
    \A r \in ReportIds : db.reports[r].status \in {"draft", "ready", "error"}

\* PersistScoredReport committed a report: the processing mark and the flip
\* to ready of one transaction became visible together
CommittedReadyWitness ==
    \E r \in ReportIds :
        /\ commits[r] >= 1
        /\ db.reports[r].status = "ready"
        /\ \E k \in 1..Len(db.results) : db.results[k].report_id = r

\* a PersistScoredReport failed at FinalizeReport, after its processing mark:
\* the worker holds the error and the report is still draft
RolledBackProcessingWitness ==
    \E w \in WorkerIds :
        /\ Is(worker[w].lastErr, "PersistScoredReport: finalize report")
        /\ db.reports[worker[w].reportID].status = "draft"

\* C38: in every committed state a report that has at least one result row
\* has status ready.
ResultRowsOnlyWhenReady ==
    \A r \in ReportIds :
        (\E k \in 1..Len(db.results) : db.results[k].report_id = r)
            => db.reports[r].status = "ready"

\* ─── PROPERTIES OF SHUTDOWN (Spec) ────────────────────────────────────────

\* the reports the recovery scan of a start lists
Pending(d) == {ListPendingReports(d)[k] : k \in 1..Len(ListPendingReports(d))}

ShutdownLeftDraftWitness ==
    /\ cancelled
    /\ start = "returned"
    /\ \E r \in ReportIds : db.reports[r].status = "draft" /\ r \in Pending(db)

\* ─── PROPERTIES OF THE RUNNER'S CAPACITY (PoolSpec) ───────────────────────

\* the workers inside an attempt of Job.Run
RunningAttempts == {w \in DOMAIN worker : worker[w].pc = "attempt"}

\* C40: in every reachable state of a Runner the queue holds at most
\* 2 x Workers identifiers and at most Workers attempts of Job.Run are
\* running, whatever the interleaving of Enqueue calls, scans and workers.
QueueAndPoolBounded ==
    /\ Len(queue) <= 2 * Workers
    /\ Cardinality(RunningAttempts) <= Workers
    /\ DOMAIN worker = 1..Workers

\* the queue is full while every worker is inside an attempt
FullQueueBusyPoolWitness ==
    /\ Len(queue) = 2 * Workers
    /\ Cardinality(RunningAttempts) = Workers
    /\ scanner.pc = "push"

====
